---- MODULE Spec2Model ----
(***************************************************************************)
(* Model of zarrview: ZarrTreeItem (the tree of group / array / attribute  *)
(* items kept in step with a zarr store) from src/zarrview/ZarrViewer.py.  *)
(*                                                                         *)
(* A Python str is a sequence of one-character strings, so that strip,     *)
(* rfind, replace and split are computed as Python computes them.          *)
(***************************************************************************)
EXTENDS Integers, Sequences, FiniteSets, TLC

VARIABLES
    store,   \* the zarr hierarchy: normalized path |-> [kind, attrs]
    items,   \* the ZarrTreeItem objects: id |-> [kind, path, key, parent, children]
    last,    \* the last call made on the tree: its arguments and its outcome
    raised,  \* an exception has left a ZarrTreeItem method
    calls    \* the number of calls made on the tree since it was built

vars == <<store, items, last, raised, calls>>

----------------------------------------------------------------------------
(* Bounds of the model.                                                    *)

\* No more ZarrTreeItems than this are ever alive (insertions stop there).
MaxItems == 10
\* Positions offered to insert / move / remove range over -1 .. MaxPos.
MaxPos == 3
\* No more calls than this are made on a tree after it is built.
MaxCalls == 2
\* remove_children is offered counts 1 .. MaxCount.
MaxCount == 2

----------------------------------------------------------------------------
(* Python strings.                                                         *)

Slash == "/"
Space == " "
Underscore == "_"

\* ord(c) for the characters the model uses (sorted() of the store listing).
Ord(c) ==
    CASE c = " " -> 32 [] c = "." -> 46 [] c = "/" -> 47
      [] c = "0" -> 48 [] c = "1" -> 49 [] c = "2" -> 50 [] c = "3" -> 51
      [] c = "4" -> 52 [] c = "5" -> 53 [] c = "6" -> 54 [] c = "7" -> 55
      [] c = "8" -> 56 [] c = "9" -> 57 [] c = "_" -> 95
      [] c = "a" -> 97 [] c = "b" -> 98 [] c = "c" -> 99 [] c = "e" -> 101
      [] c = "g" -> 103 [] c = "n" -> 110 [] c = "o" -> 111 [] c = "p" -> 112
      [] c = "r" -> 114 [] c = "t" -> 116 [] c = "u" -> 117 [] c = "w" -> 119
      [] c = "x" -> 120 [] c = "y" -> 121
      [] OTHER -> 127

\* s < t in Python's string order.
RECURSIVE StrLess(_, _)
StrLess(s, t) ==
    IF t = <<>> THEN FALSE
    ELSE IF s = <<>> THEN TRUE
    ELSE IF Ord(Head(s)) # Ord(Head(t)) THEN Ord(Head(s)) < Ord(Head(t))
    ELSE StrLess(Tail(s), Tail(t))

\* c in s
HasChar(s, c) == \E i \in 1..Len(s) : s[i] = c

\* s.strip(c) for a single character c (s.strip() is StripChar(s, " ")).
RECURSIVE LStripChar(_, _)
LStripChar(s, c) ==
    IF s # <<>> /\ Head(s) = c THEN LStripChar(Tail(s), c) ELSE s

RECURSIVE RStripChar(_, _)
RStripChar(s, c) ==
    IF s # <<>> /\ s[Len(s)] = c THEN RStripChar(SubSeq(s, 1, Len(s) - 1), c) ELSE s

StripChar(s, c) == RStripChar(LStripChar(s, c), c)

\* s.rfind(c): the 0-based position of the last c, -1 when there is none.
RFind(s, c) ==
    IF HasChar(s, c)
    THEN (CHOOSE i \in 1..Len(s) : s[i] = c /\ \A j \in (i+1)..Len(s) : s[j] # c) - 1
    ELSE -1

\* s.startswith(p)
StartsWith(s, p) == Len(p) <= Len(s) /\ SubSeq(s, 1, Len(p)) = p

\* s.find(sub) as a 1-based position, 0 when sub does not occur.
FindSub(s, sub) ==
    LET hits == {i \in 1..(Len(s) - Len(sub) + 1) : SubSeq(s, i, i + Len(sub) - 1) = sub}
    IN  IF hits = {} THEN 0 ELSE CHOOSE i \in hits : \A j \in hits : i <= j

\* s.replace(old, new, 1): the first occurrence of old replaced by new.
Replace1(s, old, new) ==
    LET i == FindSub(s, old)
    IN  IF i = 0 THEN s
        ELSE SubSeq(s, 1, i - 1) \o new \o SubSeq(s, i + Len(old), Len(s))

\* s.split('/')
RECURSIVE SplitSlash(_)
SplitSlash(s) ==
    LET i == FindSub(s, <<Slash>>)
    IN  IF i = 0 THEN <<s>>
        ELSE <<SubSeq(s, 1, i - 1)>> \o SplitSlash(SubSeq(s, i + 1, Len(s)))

\* '/'.join(parts)
RECURSIVE JoinSlash(_)
JoinSlash(parts) ==
    IF parts = <<>> THEN <<>>
    ELSE IF Len(parts) = 1 THEN parts[1]
    ELSE parts[1] \o <<Slash>> \o JoinSlash(Tail(parts))

\* str(i) for i >= 0
RECURSIVE Str(_)
Str(i) ==
    LET d == <<"0", "1", "2", "3", "4", "5", "6", "7", "8", "9">>
    IN  IF i < 10 THEN <<d[i + 1]>> ELSE Str(i \div 10) \o <<d[(i % 10) + 1]>>

\* The non-empty parts of a sequence of strings, in order.
RECURSIVE NonEmpty(_)
NonEmpty(parts) ==
    IF parts = <<>> THEN <<>>
    ELSE IF parts[1] = <<>> THEN NonEmpty(Tail(parts))
    ELSE <<parts[1]>> \o NonEmpty(Tail(parts))

\* The set of elements of a sequence.
Range(s) == {s[i] : i \in 1..Len(s)}

\* The sequence s without its i-th element (list.pop(i-1) / del list[i-1]).
RemoveAt(s, i) == SubSeq(s, 1, i - 1) \o SubSeq(s, i + 1, Len(s))

\* list.insert(p, x) with 0 <= p; Python clamps p to len(list).
InsertAt(s, p, x) ==
    LET q == IF p > Len(s) THEN Len(s) ELSE p
    IN  SubSeq(s, 1, q) \o <<x>> \o SubSeq(s, q + 1, Len(s))

\* The elements of a set of strings as a sorted sequence (Python sorted()).
RECURSIVE SortedSeq(_)
SortedSeq(S) ==
    IF S = {} THEN <<>>
    ELSE LET m == CHOOSE x \in S : \A y \in S \ {x} : StrLess(x, y)
         IN  <<m>> \o SortedSeq(S \ {m})

----------------------------------------------------------------------------
(* Attribute values: a scalar, a list or a dict (ordered).  Every value is *)
(* a record [t, n, e]: t is "s" (scalar n), "l" (list of the e[i].v) or    *)
(* "m" (dict of the entries e[i].k |-> e[i].v, in insertion order); "x" is *)
(* the outcome of a failed lookup (KeyError / IndexError / TypeError).     *)

Scalar(n) == [t |-> "s", n |-> n, e |-> <<>>]
ListOf(vals) == [t |-> "l", n |-> 0, e |-> [i \in 1..Len(vals) |-> [k |-> <<>>, v |-> vals[i]]]]
DictOf(entries) == [t |-> "m", n |-> 0, e |-> entries]
Missing == [t |-> "x", n |-> 0, e |-> <<>>]

\* The key of an attribute item: a str (dict key) or an int (list index).
StrKey(s) == [isint |-> FALSE, i |-> 0, s |-> s]
IntKey(i) == [isint |-> TRUE, i |-> i, s |-> <<>>]

\* The keys of a dict's entries, in order.
EntryKeys(entries) == [i \in 1..Len(entries) |-> entries[i].k]

\* The position of key k among the entries (0 when absent).
EntryPos(entries, k) ==
    IF \E i \in 1..Len(entries) : entries[i].k = k
    THEN CHOOSE i \in 1..Len(entries) : entries[i].k = k
    ELSE 0

\* The mutation of DictSet that puts a new key first.
DictSetFirst(entries, k, v) ==
    IF EntryPos(entries, k) # 0
    THEN [entries EXCEPT ![EntryPos(entries, k)] = [k |-> k, v |-> v]]
    ELSE <<[k |-> k, v |-> v]>> \o entries

\* d[k] = v on a dict: an existing key keeps its place, a new one goes last.
DictSet(entries, k, v) ==
    IF EntryPos(entries, k) # 0
    THEN [entries EXCEPT ![EntryPos(entries, k)] = [k |-> k, v |-> v]]
    ELSE Append(entries, [k |-> k, v |-> v])

\* del d[k]
DictDel(entries, k) == RemoveAt(entries, EntryPos(entries, k))

\* value[key] as Python evaluates it on a dict or a list.
Subscript(value, key) ==
    IF value.t = "m" /\ ~key.isint /\ EntryPos(value.e, key.s) # 0
    THEN value.e[EntryPos(value.e, key.s)].v
    ELSE IF value.t = "l" /\ key.isint /\ key.i >= 0 /\ key.i < Len(value.e)
    THEN value.e[key.i + 1].v
    ELSE Missing

\* value[chain[1]][chain[2]]...
RECURSIVE WalkChain(_, _)
WalkChain(value, chain) ==
    IF chain = <<>> \/ value.t = "x" THEN value
    ELSE WalkChain(Subscript(value, chain[1]), Tail(chain))

\* value[key] = new, in place, on a dict or a list that holds key.
SetSubscript(value, key, new) ==
    IF value.t = "m"
    THEN [value EXCEPT !.e = DictSet(value.e, key.s, new)]
    ELSE [value EXCEPT !.e[key.i + 1] = [k |-> <<>>, v |-> new]]

\* The mutation of ReplaceAt that assigns new to the first key of the chain,
\* whatever the depth of the container.
ReplaceAtTop(value, chain, new) ==
    IF chain = <<>> THEN new ELSE SetSubscript(value, chain[1], new)

\* The value with the container found along chain replaced by new: the
\* in-place mutation of a nested container seen from the top-level value.
RECURSIVE ReplaceAt(_, _, _)
ReplaceAt(value, chain, new) ==
    IF chain = <<>> THEN new
    ELSE SetSubscript(value, chain[1],
                      ReplaceAt(Subscript(value, chain[1]), Tail(chain), new))

----------------------------------------------------------------------------
(* The zarr store, keyed by normalized path ('' is the root group).  The   *)
(* store is the interface the tree calls: rename, rmdir, item lookup,      *)
(* create_group, the child listings and the attrs mapping of an object.    *)

\* normalize_storage_path: no leading, trailing or repeated '/'.
Normalize(p) == JoinSlash(NonEmpty(SplitSlash(p)))

\* p is q or lies below q.
IsUnder(p, q) == q = <<>> \/ p = q \/ StartsWith(p, q \o <<Slash>>)

\* The path of the parent of a normalized, non-empty path.
ParentPath(p) == IF RFind(p, Slash) < 0 THEN <<>> ELSE SubSeq(p, 1, RFind(p, Slash))

\* The last component of a path.
LastPart(p) == LET parts == SplitSlash(p) IN parts[Len(parts)]

IsObject(st, p) == p \in DOMAIN st /\ st[p].kind \in {"group", "array"}

\* store.rename(src, dst) when the store carries it out: the subtree at src
\* replaces whatever is at dst.  A destination inside the moved subtree, or
\* the empty destination, leaves the subtree reachable under no path.
RenamedStore(st, src0, dst0) ==
    LET src == Normalize(src0)
        dst == Normalize(dst0)
        moved == {p \in DOMAIN st : IsUnder(p, src)}
        lost == dst = <<>> \/ (dst # src /\ IsUnder(dst, src))
        kept == {p \in DOMAIN st : p \notin moved /\ (lost \/ ~IsUnder(p, dst))}
        NewPath(p) == dst \o SubSeq(p, Len(src) + 1, Len(p))
        target == IF lost THEN {} ELSE {NewPath(p) : p \in moved}
    IN  [q \in kept \cup target |->
            IF q \in target
            THEN st[CHOOSE p \in moved : NewPath(p) = q]
            ELSE st[q]]

\* store.rename(src, dst) raises whenever the source is the root or absent.
RenameMustFail(st, src0) ==
    Normalize(src0) = <<>> \/ Normalize(src0) \notin DOMAIN st

\* store.rmdir(path): the whole subtree goes.
RmdirStore(st, path) ==
    IF Normalize(path) = <<>>
    THEN [q \in {<<>>} |-> [kind |-> "group", attrs |-> <<>>]]
    ELSE [q \in {p \in DOMAIN st : ~IsUnder(p, Normalize(path))} |-> st[q]]

\* The store path that group[item] looks up, for a group at path base.
ItemPath(base, item) ==
    IF item # <<>> /\ item[1] = Slash THEN Normalize(item)
    ELSE IF base # <<>> THEN Normalize(base \o <<Slash>> \o Normalize(item))
    ELSE Normalize(item)

\* Names of the children of a given kind below path, sorted as zarr lists them.
ChildNames(st, path, kind) ==
    SortedSeq({LastPart(p) : p \in {q \in DOMAIN st :
                  q # <<>> /\ ParentPath(q) = path /\ st[q].kind = kind}})

ChildPath(path, name) == IF path = <<>> THEN name ELSE path \o <<Slash>> \o name

\* The proper ancestors of a normalized path, the root included.
Ancestors(p) == {q \in {SubSeq(p, 1, n) : n \in 0..Len(p)} :
                    q # p /\ (q = <<>> \/ p[Len(q) + 1] = Slash)}

\* group.create_group(name) can be carried out: nothing is at the path and
\* no ancestor of it is an array.
CanCreateGroup(st, path) ==
    /\ path \notin DOMAIN st \/ st[path].kind = "none"
    /\ \A q \in Ancestors(path) : ~(q \in DOMAIN st /\ st[q].kind = "array")

\* The store after create_group: the group and its missing ancestors.
CreatedGroup(st, path) ==
    LET new == {q \in Ancestors(path) \cup {path} : ~IsObject(st, q)}
    IN  [q \in DOMAIN st \cup new |->
            IF q \in new
            THEN [kind |-> "group",
                  attrs |-> IF q \in DOMAIN st THEN st[q].attrs ELSE <<>>]
            ELSE st[q]]

\* obj.attrs as a dict value (an object that is gone reads as empty).
AttrsOf(st, path) ==
    IF path \in DOMAIN st THEN DictOf(st[path].attrs) ELSE DictOf(<<>>)

\* The store after obj.attrs has been written.
WithAttrs(st, path, entries) ==
    [q \in DOMAIN st \cup {path} |->
        IF q = path
        THEN [kind |-> IF path \in DOMAIN st THEN st[path].kind ELSE "none",
              attrs |-> entries]
        ELSE st[q]]

----------------------------------------------------------------------------
(* ZarrTreeItem.  items[id] = [kind, path, key, parent, children]: kind    *)
(* says what item_data is ("group" / "array": a zarr object, whose cached  *)
(* path is path; "attr": the key or index key), parent is the id of        *)
(* parent_item (0 for None) and children the ids of child_items in order.  *)

NoParent == 0
NoKey == StrKey(<<>>)

GroupItem(kind, path, parent) ==
    [kind |-> kind, path |-> path, key |-> NoKey, parent |-> parent, children |-> <<>>]
AttrItem(key, parent) ==
    [kind |-> "attr", path |-> <<>>, key |-> key, parent |-> parent, children |-> <<>>]

isgroup(its, id) == its[id].kind = "group"
isarray(its, id) == its[id].kind = "array"
isattr(its, id) == its[id].kind = "attr"

\* ZarrTreeItem.key
ItemKey(its, id) ==
    IF isattr(its, id) THEN its[id].key
    ELSE StrKey(LastPart(StripChar(<<Slash>> \o its[id].path, Slash)))

\* ZarrTreeItem.root
RECURSIVE RootOf(_, _)
RootOf(its, id) ==
    IF its[id].parent = NoParent THEN id ELSE RootOf(its, its[id].parent)

\* ZarrTreeItem.depth
RECURSIVE Depth(_, _)
Depth(its, id) ==
    IF its[id].parent = NoParent THEN 0 ELSE 1 + Depth(its, its[id].parent)

\* ZarrTreeItem.subtree_itemlist: the item and its descendants, pre-order.
RECURSIVE SubtreeList(_, _)
RECURSIVE SubtreeLists(_, _)
SubtreeList(its, id) == <<id>> \o SubtreeLists(its, its[id].children)
SubtreeLists(its, ids) ==
    IF ids = <<>> THEN <<>>
    ELSE SubtreeList(its, ids[1]) \o SubtreeLists(its, Tail(ids))

\* The ids below or at id, reached through child_items (safe on a cycle).
RECURSIVE Reach(_, _, _)
Reach(its, seen, frontier) ==
    IF frontier = {} THEN seen
    ELSE LET next == UNION {Range(its[x].children) : x \in frontier}
         IN  Reach(its, seen \cup frontier, next \ (seen \cup frontier))

SubtreeIds(its, id) == Reach(its, {}, {id})

\* ZarrTreeItem._get_attr_chain: the object item and the keys down to id.
RECURSIVE AttrChain(_, _, _)
AttrChain(its, id, chain) ==
    IF isattr(its, id) /\ its[id].parent # NoParent
    THEN AttrChain(its, its[id].parent, <<its[id].key>> \o chain)
    ELSE [obj |-> id, chain |-> chain]

\* ZarrTreeItem.child_number (row)
ChildNumber(its, id) ==
    IF its[id].parent = NoParent THEN 0
    ELSE (CHOOSE i \in 1..Len(its[its[id].parent].children) :
              its[its[id].parent].children[i] = id) - 1

\* The id a new ZarrTreeItem gets: the smallest one not in use.
NewId(its) ==
    CHOOSE n \in 1..(Cardinality(DOMAIN its) + 1) :
        n \notin DOMAIN its /\ \A m \in 1..(n - 1) : m \in DOMAIN its

\* The new item put after the last child, whatever the position asked.
WithChildAppended(its, parent, pos, rec) ==
    LET id == NewId(its)
    IN  [x \in DOMAIN its \cup {id} |->
            IF x = id THEN rec
            ELSE IF x = parent
            THEN [its[x] EXCEPT !.children = Append(its[x].children, id)]
            ELSE its[x]]

\* child_items.append / insert of a new ZarrTreeItem(data, parent).
WithChild(its, parent, pos, rec) ==
    LET id == NewId(its)
    IN  [x \in DOMAIN its \cup {id} |->
            IF x = id THEN rec
            ELSE IF x = parent
            THEN [its[x] EXCEPT !.children = InsertAt(its[x].children, pos, id)]
            ELSE its[x]]

\* The items left once the subtree of id is no longer referenced.
Dropped(its, id) ==
    LET gone == SubtreeIds(its, id)
    IN  [x \in DOMAIN its \ gone |-> its[x]]

\* UniqueLoop with an if in place of the while: one renumbering at most.
UniqueLoopOnce(key, i, keys) ==
    IF StrKey(key) \notin keys THEN key
    ELSE SubSeq(key, 1, RFind(key, Underscore) + 1) \o Str(i)

\* The loop shared by the three unique-key methods:
\*   while key in keys: key = key[:key.rfind('_')+1] + str(i); i += 1
RECURSIVE UniqueLoop(_, _, _)
UniqueLoop(key, i, keys) ==
    IF StrKey(key) \notin keys THEN key
    ELSE UniqueLoop(SubSeq(key, 1, RFind(key, Underscore) + 1) \o Str(i), i + 1, keys)

\* The keys of the children of parent that are attrs (attr = TRUE) or
\* groups / arrays (attr = FALSE), leaving out item skip (0 for none).
ChildKeys(its, parent, attr, skip) ==
    {ItemKey(its, c) : c \in {x \in Range(its[parent].children) :
                                  x # skip /\ isattr(its, x) = attr}}

\* ZarrTreeItem.get_unique_key
GetUniqueKey(its, id, key, include_self) ==
    IF its[id].parent = NoParent THEN key
    ELSE LET sibling_keys == ChildKeys(its, its[id].parent, isattr(its, id),
                                       IF include_self THEN 0 ELSE id)
         IN  IF StrKey(key) \notin sibling_keys THEN key
             ELSE UniqueLoop(key \o <<Underscore, "1">>, 2, sibling_keys)

\* ZarrTreeItem.get_unique_child_key
GetUniqueChildKey(its, id, key) ==
    LET child_keys == ChildKeys(its, id, FALSE, 0)
    IN  IF StrKey(key) \notin child_keys THEN key
        ELSE UniqueLoop(key \o <<Underscore, "1">>, 2, child_keys)

\* ZarrTreeItem.get_unique_child_attr_key
GetUniqueChildAttrKey(its, id, key) ==
    LET child_keys == ChildKeys(its, id, TRUE, 0)
    IN  IF StrKey(key) \notin child_keys THEN key
        ELSE UniqueLoop(key \o <<Underscore, "1">>, 2, child_keys)

----------------------------------------------------------------------------
(* build_tree                                                              *)

\* ZarrTreeItem.add_existing_child_groups (recursive): todo holds the names
\* of the child groups of id still to add.
RECURSIVE AddGroups(_, _, _, _)
AddGroups(st, its, id, todo) ==
    IF todo = <<>> THEN its
    ELSE LET cid == NewId(its)
             cpath == ChildPath(its[id].path, todo[1])
             its1 == WithChild(its, id, Len(its[id].children),
                               GroupItem("group", cpath, id))
             its2 == AddGroups(st, its1, cid, ChildNames(st, cpath, "group"))
         IN  AddGroups(st, its2, id, Tail(todo))

AddExistingChildGroups(st, its, id) ==
    IF ~isgroup(its, id) THEN its
    ELSE AddGroups(st, its, id, ChildNames(st, its[id].path, "group"))

\* ZarrTreeItem.add_existing_child_arrays
RECURSIVE AddArrays(_, _, _)
AddArrays(its, id, todo) ==
    IF todo = <<>> THEN its
    ELSE AddArrays(WithChild(its, id, Len(its[id].children),
                             GroupItem("array", ChildPath(its[id].path, todo[1]), id)),
                   id, Tail(todo))

AddExistingChildArrays(st, its, id) ==
    IF ~isgroup(its, id) THEN its
    ELSE AddArrays(its, id, ChildNames(st, its[id].path, "array"))

\* ZarrTreeItem.attr
AttrValue(st, its, id) ==
    LET c == AttrChain(its, id, <<>>)
    IN  WalkChain(AttrsOf(st, its[c.obj].path), c.chain)

\* The keys add_existing_child_attrs enumerates under item id.
AttrChildKeys(st, its, id) ==
    LET value == IF isattr(its, id) THEN AttrValue(st, its, id)
                 ELSE AttrsOf(st, its[id].path)
    IN  IF value.t = "m" THEN [i \in 1..Len(value.e) |-> StrKey(value.e[i].k)]
        ELSE IF value.t = "l" THEN [i \in 1..Len(value.e) |-> IntKey(i - 1)]
        ELSE <<>>

\* ZarrTreeItem.add_existing_child_attrs (recursive)
RECURSIVE AddAttrs(_, _, _, _)
AddAttrs(st, its, id, todo) ==
    IF todo = <<>> THEN its
    ELSE LET cid == NewId(its)
             its1 == WithChild(its, id, Len(its[id].children), AttrItem(todo[1], id))
             its2 == AddAttrs(st, its1, cid, AttrChildKeys(st, its1, cid))
         IN  AddAttrs(st, its2, id, Tail(todo))

AddExistingChildAttrs(st, its, id) == AddAttrs(st, its, id, AttrChildKeys(st, its, id))

\* for item in items: item.add_existing_child_arrays() / _attrs()
RECURSIVE ForEachAddArrays(_, _, _)
ForEachAddArrays(st, its, ids) ==
    IF ids = <<>> THEN its
    ELSE ForEachAddArrays(st, AddExistingChildArrays(st, its, ids[1]), Tail(ids))

RECURSIVE ForEachAddAttrs(_, _, _)
ForEachAddAttrs(st, its, ids) ==
    IF ids = <<>> THEN its
    ELSE ForEachAddAttrs(st, AddExistingChildAttrs(st, its, ids[1]), Tail(ids))

RootId == 1

\* build_tree(root, path=None, include_attrs, include_arrays, include_groups)
\* for the object at rootPath.
BuildTree(st, rootPath, include_attrs, include_arrays, include_groups) ==
    LET its0 == [x \in {RootId} |-> GroupItem(st[rootPath].kind, rootPath, NoParent)]
        its1 == IF include_groups THEN AddExistingChildGroups(st, its0, RootId) ELSE its0
        its2 == IF include_arrays
                THEN ForEachAddArrays(st, its1, SubtreeList(its1, RootId))
                ELSE its1
    IN  IF include_attrs
        THEN ForEachAddAttrs(st, its2, SubtreeList(its2, RootId))
        ELSE its2

----------------------------------------------------------------------------
(* The record of the last call.  result is "true" / "false" (the value     *)
(* returned) or "raised" (an exception left the method); why names the     *)
(* return statement or the failing operation; the arguments are kept for   *)
(* the calls that went through.                                            *)

NoCall ==
    [op |-> "none", result |-> "none", why |-> "none", item |-> 0, dst |-> 0,
     pos |-> 0, count |-> 0, key |-> <<>>, newkey |-> <<>>, keys |-> {},
     include_self |-> FALSE, path |-> <<>>, path_slice |-> <<>>, found |-> <<>>,
     include_arrays |-> FALSE, include_groups |-> FALSE, include_attrs |-> FALSE,
     segments |-> <<>>]

\* The call returned False before touching the store or the tree.
Rejected(op, why) ==
    /\ last' = [NoCall EXCEPT !.op = op, !.result = "false", !.why = why]
    /\ calls' = calls + 1
    /\ UNCHANGED <<store, items, raised>>

\* An exception left the method, with the store and the tree as they were
\* when it was raised.
Raised(op, why, st, its) ==
    /\ last' = [NoCall EXCEPT !.op = op, !.result = "raised", !.why = why]
    /\ store' = st
    /\ items' = its
    /\ raised' = TRUE
    /\ calls' = calls + 1

\* The call returned True.
Returned(call, st, its) ==
    /\ last' = [call EXCEPT !.result = "true", !.why = "done"]
    /\ store' = st
    /\ items' = its
    /\ calls' = calls + 1
    /\ UNCHANGED raised

----------------------------------------------------------------------------
(* ZarrTreeItem.set_key                                                    *)

\* for item in self.subtree_itemlist():
\*     item.item_data = root_item.item_data[
\*         item.item_data.path.replace(old_path, new_path, 1)]
\* ok is FALSE when the loop raised (an attr item has no .path; the lookup
\* found no object).
RECURSIVE SetKeyReset(_, _, _, _, _, _)
SetKeyReset(st, its, ids, rootPath, old_path, new_path) ==
    IF ids = <<>> THEN [ok |-> TRUE, its |-> its]
    ELSE IF isattr(its, ids[1]) THEN [ok |-> FALSE, its |-> its]
    ELSE LET p == ItemPath(rootPath, Replace1(its[ids[1]].path, old_path, new_path))
         IN  IF ~IsObject(st, p) THEN [ok |-> FALSE, its |-> its]
             ELSE SetKeyReset(st,
                              [its EXCEPT ![ids[1]].path = p, ![ids[1]].kind = st[p].kind],
                              Tail(ids), rootPath, old_path, new_path)

\* The mutation of KeyHasSlash that lets every name through.
KeyHasSlashNever(key) == FALSE

\* if '/' in key: return False
KeyHasSlash(key) == HasChar(key, Slash)

\* set_key on a group or array item; storeOk: store.rename does not fail.
SetKeyObject(id, key0, storeOk) ==
    LET key1 == StripChar(StripChar(key0, Space), Slash)
        key == GetUniqueKey(items, id, key1, TRUE)
        old_path == items[id].path
        pos == RFind(old_path, Slash)
        new_path == SubSeq(old_path, 1, pos + 1) \o key
        rootPath == items[RootOf(items, id)].path
        st == RenamedStore(store, old_path, new_path)
        p == ItemPath(rootPath, new_path)
        its1 == [items EXCEPT ![id].path = p, ![id].kind = st[p].kind]
        reset == SetKeyReset(st, its1, SubtreeList(its1, id), rootPath, old_path, new_path)
        call == [NoCall EXCEPT !.op = "set_key", !.item = id, !.key = key0, !.newkey = key,
                               !.keys = IF items[id].parent = NoParent THEN {}
                                        ELSE ChildKeys(items, items[id].parent, FALSE, 0)]
    IN  IF KeyHasSlash(key1) THEN Rejected("set_key", "slash")
        ELSE IF new_path = old_path THEN Rejected("set_key", "nochange")
        ELSE IF ~storeOk \/ RenameMustFail(store, old_path) THEN Rejected("set_key", "store")
        ELSE IF ~IsObject(st, p) THEN Raised("set_key", "lookup", st, items)
        ELSE IF ~reset.ok THEN Raised("set_key", "reset", st, reset.its)
        ELSE Returned(call, st, reset.its)

\* The mutation of IsDict that takes every container for a dict.
IsDictAlways(value) == TRUE

\* isinstance(child_attr, dict)
IsDict(value) == value.t = "m"

\* set_key on an attr item; storeOk: the write of obj.attrs does not fail.
SetKeyAttr(id, key0, storeOk) ==
    LET c == AttrChain(items, id, <<>>)
        objPath == items[c.obj].path
        attrs == AttrsOf(store, objPath)
        n == Len(c.chain)
        key == GetUniqueKey(items, id, key0, TRUE)
        call == [NoCall EXCEPT !.op = "set_key", !.item = id, !.key = key0, !.newkey = key,
                               !.keys = ChildKeys(items, items[id].parent, TRUE, 0)]
        its1 == [items EXCEPT ![id].key = StrKey(key)]
        \* the dict that holds the item's entry, and that dict after
        \* d[key] = d.pop(old)
        holder == WalkChain(attrs, SubSeq(c.chain, 1, n - 1))
        popped == DictSet(DictDel(holder.e, c.chain[n].s), key, Subscript(holder, c.chain[n]))
        attrs1 == ReplaceAt(attrs, SubSeq(c.chain, 1, n - 1), DictOf(popped))
    IN  IF n = 1
        THEN IF Subscript(attrs, c.chain[1]).t = "x" THEN Raised("set_key", "lookup", store, items)
             ELSE IF ~storeOk THEN Raised("set_key", "store", store, items)
             ELSE Returned(call, WithAttrs(store, objPath, popped), its1)
        ELSE IF holder.t = "x" THEN Raised("set_key", "lookup", store, items)
        ELSE IF ~IsDict(holder) THEN Rejected("set_key", "list")
        ELSE IF Subscript(holder, c.chain[n]).t = "x" THEN Raised("set_key", "lookup", store, items)
        ELSE IF ~storeOk THEN Raised("set_key", "store", store, items)
        ELSE Returned(call, WithAttrs(store, objPath, attrs1.e), its1)

SetKey(id, key, storeOk) ==
    /\ ~raised /\ calls < MaxCalls
    /\ id \in DOMAIN items
    /\ IF StrKey(key) = ItemKey(items, id) THEN Rejected("set_key", "same")
       ELSE IF ~isattr(items, id) THEN SetKeyObject(id, key, storeOk)
       ELSE SetKeyAttr(id, key, storeOk)

----------------------------------------------------------------------------
(* ZarrTreeItem.move_to                                                    *)

\* for item in self.subtree_itemlist():
\*     if item.isgroup() or item.isarray():
\*         item.item_data = root[item.item_data.path.replace(src_path, dst_path, 1)]
RECURSIVE MoveReset(_, _, _, _, _, _)
MoveReset(st, its, ids, rootPath, src_path, dst_path) ==
    IF ids = <<>> THEN [ok |-> TRUE, its |-> its]
    ELSE IF isattr(its, ids[1])
    THEN MoveReset(st, its, Tail(ids), rootPath, src_path, dst_path)
    ELSE LET p == ItemPath(rootPath, Replace1(its[ids[1]].path, src_path, dst_path))
         IN  IF ~IsObject(st, p) THEN [ok |-> FALSE, its |-> its]
             ELSE MoveReset(st,
                            [its EXCEPT ![ids[1]].path = p, ![ids[1]].kind = st[p].kind],
                            Tail(ids), rootPath, src_path, dst_path)

\* Reparented with the item always put last among the children of dst_parent.
ReparentedLast(its, id, dst_parent, dst_position) ==
    [x \in DOMAIN its |->
        IF x = id /\ x = dst_parent
        THEN [its[x] EXCEPT !.parent = dst_parent, !.children = Append(@, id)]
        ELSE IF x = id THEN [its[x] EXCEPT !.parent = dst_parent]
        ELSE IF x = its[id].parent
        THEN [its[x] EXCEPT !.children = RemoveAt(its[x].children, ChildNumber(its, id) + 1)]
        ELSE IF x = dst_parent
        THEN [its[x] EXCEPT !.children = Append(its[x].children, id)]
        ELSE its[x]]

\* The tree once self has left its parent's child_items and has been
\* inserted into those of dst_parent at dst_position.
Reparented(its, id, dst_parent, dst_position) ==
    LET src_parent == its[id].parent
    IN  [x \in DOMAIN its |->
            IF x = id /\ x = dst_parent
            THEN [its[x] EXCEPT !.parent = dst_parent,
                                !.children = InsertAt(@, dst_position, id)]
            ELSE IF x = id THEN [its[x] EXCEPT !.parent = dst_parent]
            ELSE IF x = src_parent
            THEN [its[x] EXCEPT !.children = RemoveAt(its[x].children, ChildNumber(its, id) + 1)]
            ELSE IF x = dst_parent
            THEN [its[x] EXCEPT !.children = InsertAt(its[x].children, dst_position, id)]
            ELSE its[x]]

\* MoveRejection without the check of the keys of the destination's children.
MoveRejectionNoKeys(its, id, dst_parent) ==
    IF its[id].parent = NoParent THEN "root"
    ELSE IF isattr(its, id) THEN "attr"
    ELSE IF ~isgroup(its, dst_parent) THEN "dstnotgroup"
    ELSE IF dst_parent = its[id].parent THEN "sameparent"
    ELSE "none"

\* The checks at the head of move_to: the return statement that rejects the
\* move of self to dst_parent, "none" when the move goes on.
MoveRejection(its, id, dst_parent) ==
    LET src_key == ItemKey(its, id)
        dst_keys == {ItemKey(its, c) : c \in Range(its[dst_parent].children)}
    IN  IF its[id].parent = NoParent THEN "root"
        ELSE IF isattr(its, id) THEN "attr"
        ELSE IF ~isgroup(its, dst_parent) THEN "dstnotgroup"
        ELSE IF dst_parent = its[id].parent THEN "sameparent"
        ELSE IF src_key \in dst_keys THEN "collision"
        ELSE "none"

\* move_to(dst_parent, dst_position); a negative position stands for None
\* as well; storeOk: store.rename does not fail.
MoveTo(id, dst_parent, position, storeOk) ==
    LET dst_position == IF position < 0 THEN Len(items[dst_parent].children) ELSE position
        src_key == ItemKey(items, id)
        rootPath == items[RootOf(items, id)].path
        src_path == items[id].path
        dst_path == items[dst_parent].path \o <<Slash>> \o src_key.s
        st == RenamedStore(store, src_path, dst_path)
        its1 == Reparented(items, id, dst_parent, dst_position)
        reset == MoveReset(st, its1, SubtreeList(its1, id), rootPath, src_path, dst_path)
        call == [NoCall EXCEPT !.op = "move_to", !.item = id, !.dst = dst_parent,
                               !.pos = position, !.key = src_key.s]
    IN  /\ ~raised /\ calls < MaxCalls
        /\ id \in DOMAIN items
        /\ dst_parent \in DOMAIN items
        /\ IF MoveRejection(items, id, dst_parent) # "none"
           THEN Rejected("move_to", MoveRejection(items, id, dst_parent))
           ELSE IF ~storeOk \/ RenameMustFail(store, src_path) THEN Rejected("move_to", "store")
           \* the destination lies in the moved subtree: child_items now holds
           \* a cycle and subtree_itemlist recurses until RecursionError
           ELSE IF dst_parent \in SubtreeIds(items, id) THEN Raised("move_to", "cycle", st, its1)
           ELSE IF ~reset.ok THEN Raised("move_to", "lookup", st, reset.its)
           ELSE Returned(call, st, reset.its)

----------------------------------------------------------------------------
(* ZarrTreeItem.insert_child_group / insert_child_attr                     *)

new_group == <<"n", "e", "w", "_", "g", "r", "o", "u", "p">>
new_attr == <<"n", "e", "w", "_", "a", "t", "t", "r">>

\* insert_child_group(position, key); nokey: key is None; storeOk: the
\* store carries out create_group.
InsertChildGroup(id, position, nokey, key0, storeOk) ==
    LET key == GetUniqueChildKey(items, id, IF nokey THEN new_group ELSE key0)
        path == ItemPath(items[id].path, key)
        st == CreatedGroup(store, path)
        its1 == WithChild(items, id, position, GroupItem("group", path, id))
        call == [NoCall EXCEPT !.op = "insert_child_group", !.item = id, !.pos = position,
                               !.key = IF nokey THEN new_group ELSE key0, !.newkey = key,
                               !.dst = NewId(items),
                               !.keys = ChildKeys(items, id, FALSE, 0)]
    IN  /\ ~raised /\ calls < MaxCalls
        /\ id \in DOMAIN items
        /\ Cardinality(DOMAIN items) < MaxItems
        /\ IF position < 0 \/ position > Len(items[id].children)
           THEN Rejected("insert_child_group", "position")
           ELSE IF ~isgroup(items, id) THEN Rejected("insert_child_group", "notgroup")
           ELSE IF ~storeOk \/ ~CanCreateGroup(store, path)
           THEN Raised("insert_child_group", "store", store, items)
           ELSE Returned(call, st, its1)

\* RaiseIndices with the loop started at position: the new item is raised too.
RaiseIndicesFromNew(its, id, position) ==
    [x \in DOMAIN its |->
        IF \E i \in (position + 1)..Len(its[id].children) : its[id].children[i] = x
        THEN [its[x] EXCEPT !.key.i = @ + 1]
        ELSE its[x]]

\* for i in range(position + 1, len(self.child_items)):
\*     self.child_items[i].item_data += 1
RaiseIndices(its, id, position) ==
    [x \in DOMAIN its |->
        IF \E i \in (position + 2)..Len(its[id].children) : its[id].children[i] = x
        THEN [its[x] EXCEPT !.key.i = @ + 1]
        ELSE its[x]]

\* insert_child_attr(position, key, value); nokey: key is None; storeOk:
\* the write of obj.attrs does not fail.
InsertChildAttr(id, position, nokey, key0, value, storeOk) ==
    LET c == AttrChain(items, id, <<>>)
        objPath == items[c.obj].path
        attrs == AttrsOf(store, objPath)
        child_attr == WalkChain(attrs, c.chain)
        key == GetUniqueChildAttrKey(items, id, IF nokey THEN new_attr ELSE key0)
        call == [NoCall EXCEPT !.op = "insert_child_attr", !.item = id, !.pos = position,
                               !.key = IF nokey THEN new_attr ELSE key0,
                               !.dst = NewId(items),
                               !.keys = ChildKeys(items, id, TRUE, 0)]
        \* a dict (obj.attrs or a nested dict) gets the new key
        dictAttrs == ReplaceAt(attrs, c.chain, DictOf(DictSet(child_attr.e, key, value)))
        dictItems == WithChild(items, id, position, AttrItem(StrKey(key), id))
        \* a list gets the value at position; the items after the new one
        \* have their index raised by one
        listAttrs == ReplaceAt(attrs, c.chain,
                               [child_attr EXCEPT !.e = InsertAt(child_attr.e, position,
                                                                 [k |-> <<>>, v |-> value])])
        listItems == RaiseIndices(WithChild(items, id, position,
                                            AttrItem(IntKey(position), id)),
                                  id, position)
    IN  /\ ~raised /\ calls < MaxCalls
        /\ id \in DOMAIN items
        /\ Cardinality(DOMAIN items) < MaxItems
        /\ IF position < 0 \/ position > Len(items[id].children)
           THEN Rejected("insert_child_attr", "position")
           ELSE IF child_attr.t = "x" THEN Raised("insert_child_attr", "lookup", store, items)
           ELSE IF child_attr.t = "s" THEN Rejected("insert_child_attr", "scalar")
           ELSE IF ~storeOk THEN Raised("insert_child_attr", "store", store, items)
           ELSE IF child_attr.t = "m"
           THEN Returned([call EXCEPT !.newkey = key],
                         WithAttrs(store, objPath, dictAttrs.e), dictItems)
           ELSE Returned(call, WithAttrs(store, objPath, listAttrs.e), listItems)

----------------------------------------------------------------------------
(* ZarrTreeItem.remove_children                                            *)

\* del container[key] on a dict or a list (Missing: KeyError / IndexError).
Deleted(container, key) ==
    IF Subscript(container, key).t = "x" THEN Missing
    ELSE IF container.t = "m" THEN [container EXCEPT !.e = DictDel(container.e, key.s)]
    ELSE [container EXCEPT !.e = RemoveAt(container.e, key.i + 1)]

\* LowerIndices with the loop started at position + 1: the item that took
\* the place of the removed one keeps its index.
LowerIndicesAfterNext(its, id, position) ==
    [x \in DOMAIN its |->
        IF \E i \in (position + 2)..Len(its[id].children) : its[id].children[i] = x
        THEN [its[x] EXCEPT !.key.i = @ - 1]
        ELSE its[x]]

\* for i in range(position, len(self.child_items)):
\*     self.child_items[i].item_data -= 1
LowerIndices(its, id, position) ==
    [x \in DOMAIN its |->
        IF \E i \in (position + 1)..Len(its[id].children) : its[id].children[i] = x
        THEN [its[x] EXCEPT !.key.i = @ - 1]
        ELSE its[x]]

\* The body of the loop, run for row = done + 1 .. count:
\*     item = self.child_items.pop(position)
\*     then the object or attribute of item is deleted from the store.
\* failAt is the row at which the store operation fails (0: at none).
\* The result is [st, its, why]: why is "done", or what raised.
RECURSIVE RemoveLoop(_, _, _, _, _, _, _)
RemoveLoop(st, its, id, position, count, failAt, done) ==
    IF done = count THEN [st |-> st, its |-> its, why |-> "done"]
    ELSE
    LET item == its[id].children[position + 1]
        popped == [its EXCEPT ![id].children = RemoveAt(@, position + 1)]
        after == Dropped(popped, item)
        key == its[item].key
        c == AttrChain(popped, item, <<>>)
        n == Len(c.chain)
        objPath == its[c.obj].path
        attrs == AttrsOf(st, objPath)
        child_attr == WalkChain(attrs, SubSeq(c.chain, 1, n - 1))
        attrs1 == ReplaceAt(attrs, SubSeq(c.chain, 1, n - 1), Deleted(child_attr, key))
        renumbered == LowerIndices(after, id, position)
    IN  IF ~isattr(its, item)
        THEN IF failAt = done + 1 THEN [st |-> st, its |-> after, why |-> "store"]
             ELSE RemoveLoop(RmdirStore(st, its[item].path), after,
                             id, position, count, failAt, done + 1)
        ELSE IF child_attr.t = "x" \/ Deleted(child_attr, key).t = "x"
        THEN [st |-> st, its |-> after, why |-> "lookup"]
        ELSE IF failAt = done + 1 THEN [st |-> st, its |-> after, why |-> "store"]
        ELSE RemoveLoop(WithAttrs(st, objPath, attrs1.e),
                        IF n > 1 /\ child_attr.t = "l" THEN renumbered ELSE after,
                        id, position, count, failAt, done + 1)

RemoveChildren(id, position, count, failAt) ==
    LET r == RemoveLoop(store, items, id, position, count, failAt, 0)
        call == [NoCall EXCEPT !.op = "remove_children", !.item = id, !.pos = position,
                               !.count = count]
    IN  /\ ~raised /\ calls < MaxCalls
        /\ id \in DOMAIN items
        /\ IF position < 0 \/ position + count > Len(items[id].children)
           THEN Rejected("remove_children", "position")
           ELSE IF r.why # "done" THEN Raised("remove_children", r.why, r.st, r.its)
           ELSE Returned(call, r.st, r.its)

----------------------------------------------------------------------------
(* The hierarchy tree: build_tree(root) on the root group of a store, with *)
(* groups and arrays and no attribute items, then any calls.               *)

EmptyGroup == [kind |-> "group", attrs |-> <<>>]
EmptyArray == [kind |-> "array", attrs |-> <<>>]

s_a == <<"a">>
s_ab == <<"a", "b">>
s_abb == <<"a", "b", "b">>
s_a_1 == <<"a", "_", "1">>
s_a_3 == <<"a", "_", "3">>

\* The store with the given groups and arrays below an empty root group.
StoreOf(groups, arrays) ==
    [p \in {<<>>} \cup groups \cup arrays |->
        IF p \in arrays THEN EmptyArray ELSE EmptyGroup]

\* The hierarchies the tree is first built from.
InitStores ==
    { StoreOf({s_a, s_abb}, {ChildPath(s_a, s_ab)}),
      StoreOf({s_a, ChildPath(s_a, s_abb), s_ab}, {}),
      StoreOf({s_a, s_a_1, s_a_3}, {s_ab}),
      StoreOf({s_a}, {}) }

\* The names asked of set_key.
KeyInputs == { s_a, s_ab, <<"a", "/", "b">>, <<" ", "a">>, <<>> }

\* The names asked of insert_child_group (besides None).
InsertKeys == { s_a }

Positions == -1..MaxPos

Init ==
    /\ store \in InitStores
    /\ items = BuildTree(store, <<>>, FALSE, TRUE, TRUE)
    /\ last = NoCall
    /\ raised = FALSE
    /\ calls = 0

Next ==
    \/ \E id \in DOMAIN items, key \in KeyInputs, storeOk \in BOOLEAN :
          SetKey(id, key, storeOk)
    \/ \E id \in DOMAIN items, dst \in DOMAIN items, pos \in Positions, storeOk \in BOOLEAN :
          MoveTo(id, dst, pos, storeOk)
    \/ \E id \in DOMAIN items, pos \in Positions, nokey \in BOOLEAN, key \in InsertKeys,
          storeOk \in BOOLEAN :
          InsertChildGroup(id, pos, nokey, key, storeOk)
    \/ \E id \in DOMAIN items, pos \in Positions, count \in 1..MaxCount, failAt \in 0..MaxCount :
          RemoveChildren(id, pos, count, failAt)

Spec == Init /\ [][Next]_vars

----------------------------------------------------------------------------
(* The unique-key methods, called on the items of trees whose children     *)
(* hold any of a few names as groups and as attributes of the root.        *)

s_a_2 == <<"a", "_", "2">>

GetUniqueKeyCall(id, key, include_self) ==
    /\ ~raised /\ calls < MaxCalls
    /\ id \in DOMAIN items
    /\ Returned([NoCall EXCEPT !.op = "get_unique_key", !.item = id, !.key = key,
                               !.include_self = include_self,
                               !.newkey = GetUniqueKey(items, id, key, include_self)],
                store, items)

GetUniqueChildKeyCall(id, key) ==
    /\ ~raised /\ calls < MaxCalls
    /\ id \in DOMAIN items
    /\ Returned([NoCall EXCEPT !.op = "get_unique_child_key", !.item = id, !.key = key,
                               !.newkey = GetUniqueChildKey(items, id, key)],
                store, items)

GetUniqueChildAttrKeyCall(id, key) ==
    /\ ~raised /\ calls < MaxCalls
    /\ id \in DOMAIN items
    /\ Returned([NoCall EXCEPT !.op = "get_unique_child_attr_key", !.item = id, !.key = key,
                               !.newkey = GetUniqueChildAttrKey(items, id, key)],
                store, items)

\* The names held by the children, and the names asked for.
UniqueNames == { s_a, s_a_1, s_a_2, s_a_3 }
UniqueAttrNames == { s_a, s_a_1, s_a_2 }
UniqueInputs == { s_a, s_a_1, s_ab }

\* The attrs of an object that holds a scalar under each of the names.
ScalarAttrs(names) ==
    LET keys == SortedSeq(names)
    IN  [i \in 1..Len(keys) |-> [k |-> keys[i], v |-> Scalar(0)]]

InitUnique ==
    /\ store \in { [StoreOf(G, {}) EXCEPT ![<<>>].attrs = ScalarAttrs(A)] :
                       G \in SUBSET UniqueNames, A \in SUBSET UniqueAttrNames }
    /\ items = BuildTree(store, <<>>, TRUE, TRUE, TRUE)
    /\ last = NoCall
    /\ raised = FALSE
    /\ calls = 0

NextUnique ==
    \/ \E id \in DOMAIN items, key \in UniqueInputs, include_self \in BOOLEAN :
          GetUniqueKeyCall(id, key, include_self)
    \/ \E id \in DOMAIN items, key \in UniqueInputs :
          GetUniqueChildKeyCall(id, key)
    \/ \E id \in DOMAIN items, key \in UniqueInputs :
          GetUniqueChildAttrKeyCall(id, key)

SpecUnique == InitUnique /\ [][NextUnique]_vars

----------------------------------------------------------------------------
(* The tree with attribute items: build_tree(root, include_attrs=True) on  *)
(* a store whose group a holds a list attribute, then any calls.           *)

s_l == <<"l">>

\* The elements of the list attribute, and the values and keys asked of
\* insert_child_attr.
ListValues == << Scalar(10), Scalar(11), Scalar(12) >>
AttrValues == { Scalar(7) }
AttrKeys == { s_l }

\* The store the tree with attribute items is built from.
AttrStore ==
    [StoreOf({s_a, s_abb, ChildPath(s_abb, s_a)}, {})
        EXCEPT ![s_a].attrs = << [k |-> s_l, v |-> ListOf(ListValues)] >>]

InitAttr ==
    /\ store = AttrStore
    /\ items = BuildTree(store, <<>>, TRUE, TRUE, TRUE)
    /\ last = NoCall
    /\ raised = FALSE
    /\ calls = 0

NextAttr ==
    \/ \E id \in DOMAIN items, key \in KeyInputs, storeOk \in BOOLEAN :
          SetKey(id, key, storeOk)
    \/ \E id \in DOMAIN items, dst \in DOMAIN items, pos \in Positions, storeOk \in BOOLEAN :
          MoveTo(id, dst, pos, storeOk)
    \/ \E id \in DOMAIN items, pos \in Positions, nokey \in BOOLEAN, key \in InsertKeys,
          storeOk \in BOOLEAN :
          InsertChildGroup(id, pos, nokey, key, storeOk)
    \/ \E id \in DOMAIN items, pos \in Positions, nokey \in BOOLEAN, key \in AttrKeys,
          value \in AttrValues, storeOk \in BOOLEAN :
          InsertChildAttr(id, pos, nokey, key, value, storeOk)
    \/ \E id \in DOMAIN items, pos \in Positions, count \in 1..MaxCount, failAt \in 0..MaxCount :
          RemoveChildren(id, pos, count, failAt)

SpecAttr == InitAttr /\ [][NextAttr]_vars

----------------------------------------------------------------------------
(* Properties of the hierarchy tree.                                       *)

\* The group and array items, and the paths of the objects in the store.
Objects(its) == {x \in DOMAIN its : ~isattr(its, x)}
StoreObjects(st) == {p \in DOMAIN st : st[p].kind \in {"group", "array"}}

\* Path p with its leading old replaced by new.
PrefixReplaced(p, old, new) == new \o SubSeq(p, Len(old) + 1, Len(p))

\* The path set_key renames old_path to, for the uniquified key.
RenameTarget(old_path, key) == SubSeq(old_path, 1, RFind(old_path, Slash) + 1) \o key

\* Every group / array item holds the path of an object of the store, every
\* object of the store is held by an item, and the path of an item is its
\* parent's path joined with its own key.
Mirrors(st, its) ==
    /\ {its[x].path : x \in Objects(its)} = StoreObjects(st)
    /\ \A x \in Objects(its) :
          its[x].parent # NoParent =>
              its[x].path = ChildPath(its[its[x].parent].path, ItemKey(its, x).s)

\* The tree is in step with the store: it mirrors it, and no two items hold
\* the same object.
InStep(st, its) ==
    /\ Mirrors(st, its)
    /\ \A x, y \in Objects(its) : its[x].path = its[y].path => x = y

\* C1: in a tree built fully from the store, after any sequence of calls of
\* set_key, move_to, insert_child_group and remove_children that returned
\* (none raised), the paths held by the group / array items are exactly the
\* paths of the groups and arrays of the store, and every such item's path
\* is its parent's path joined with its own key.
C1_TreeMirrorsStore == ~raised => Mirrors(store, items)

\* C2: when set_key returns True on a group / array item, the item refers
\* to new_path (old_path with its last component replaced by the new key)
\* and every group / array item of its subtree refers to its former path
\* with the leading old_path replaced by new_path.
C2_SetKeyRewritesSubtree ==
    [][ (last'.op = "set_key" /\ last'.result = "true" /\ ~isattr(items, last'.item)) =>
            LET id == last'.item
                old_path == items[id].path
                new_path == RenameTarget(old_path, last'.newkey)
            IN  /\ items'[id].path = new_path
                /\ \A x \in SubtreeIds(items, id) :
                      ~isattr(items, x) =>
                          items'[x].path = PrefixReplaced(items[x].path, old_path, new_path)
      ]_vars

\* What move_to promises of a call that returned True, for the row `row` (from
\* 0) the moved item is to have among the children of the destination.
MovedTo(id, dst, row) ==
    LET src_path == items[id].path
        dst_path == ChildPath(items[dst].path, last'.key)
        moved == {p \in StoreObjects(store) : IsUnder(p, src_path)}
    IN  /\ items'[id].parent = dst
        /\ row < Len(items'[dst].children)
        /\ items'[dst].children[row + 1] = id
        /\ id \notin Range(items'[items[id].parent].children)
        /\ \A p \in moved :
              /\ IsObject(store', PrefixReplaced(p, src_path, dst_path))
              /\ store'[PrefixReplaced(p, src_path, dst_path)] = store[p]
              /\ ~IsObject(store', p)
        /\ \A x \in SubtreeIds(items, id) :
              ~isattr(items, x) =>
                  items'[x].path = PrefixReplaced(items[x].path, src_path, dst_path)
        /\ DOMAIN items' = DOMAIN items

C4_RenameMoveAtomic ==
    [][ (last'.op \in {"set_key", "move_to"}) =>
            /\ store' # store => last'.result = "true"
            /\ last'.result = "false" => (items' = items /\ store' = store)
            /\ last'.result = "true" =>
                  \A x \in Objects(items') : IsObject(store', items'[x].path)
      ]_vars

\* C5: when the deletion in the store fails during remove_children, the
\* tree is as it was before the call.
C5_FailedRemoveKeepsTree ==
    [][ (last'.op = "remove_children" /\ last'.result = "raised" /\ last'.why = "store") =>
            items' = items
      ]_vars

\* C6: set_key on a group / array item, asked for the key of one of its
\* siblings while the store carries out every rename, returns True, the item
\* then has a key no sibling holds, and the sibling item and its object are
\* as before.
C6_SetKeyToSiblingName ==
    [][ \A id \in DOMAIN items, key \in KeyInputs :
            ( /\ items[id].parent # NoParent
              /\ ~isattr(items, id)
              /\ StrKey(key) \in ChildKeys(items, items[id].parent, FALSE, id)
              /\ SetKey(id, key, TRUE) )
            => /\ last'.result = "true"
               /\ id \in DOMAIN items'
               /\ ItemKey(items', id) \notin ChildKeys(items', items[id].parent, FALSE, id)
               /\ \A sib \in Range(items[items[id].parent].children) \ {id} :
                     /\ items'[sib] = items[sib]
                     /\ ~isattr(items, sib) =>
                           /\ IsObject(store', items[sib].path)
                           /\ store'[items[sib].path] = store[items[sib].path]
      ]_vars

----------------------------------------------------------------------------
(* Properties of the unique-key methods.                                   *)

\* key_k
Numbered(key, k) == key \o <<Underscore>> \o Str(k)

\* The keys the call recorded in last had to avoid: those of the items of
\* the same sort (group / array, or attribute) below the same parent, or
\* below the item itself for the child methods.
KeysToAvoid ==
    LET id == last.item
    IN  IF last.op = "get_unique_key"
        THEN {ItemKey(items, x) : x \in {y \in DOMAIN items :
                  /\ items[id].parent # NoParent
                  /\ items[y].parent = items[id].parent
                  /\ isattr(items, y) = isattr(items, id)
                  /\ (last.include_self \/ y # id)}}
        ELSE {ItemKey(items, x) : x \in {y \in DOMAIN items :
                  /\ items[y].parent = id
                  /\ isattr(items, y) = (last.op = "get_unique_child_attr_key")}}

\* C7: get_unique_key, get_unique_child_key and get_unique_child_attr_key
\* return the desired key when no sibling holds it, and otherwise key_k for
\* the smallest k >= 1 such that no sibling holds key_k; the result is held
\* by no sibling.
C7_UniqueKey ==
    (last.op \in {"get_unique_key", "get_unique_child_key", "get_unique_child_attr_key"}) =>
        /\ StrKey(last.newkey) \notin KeysToAvoid
        /\ IF StrKey(last.key) \notin KeysToAvoid
           THEN last.newkey = last.key
           ELSE \E k \in 1..(Cardinality(KeysToAvoid) + 1) :
                   /\ last.newkey = Numbered(last.key, k)
                   /\ \A j \in 1..(k - 1) : StrKey(Numbered(last.key, j)) \in KeysToAvoid

\* C7 witness: siblings a, a_1 and a_3 (and not a_2), desired key a, result a_2.
C7_Witness_SkipsToFirstFree ==
    /\ last.op = "get_unique_key"
    /\ last.key = s_a
    /\ last.newkey = s_a_2
    /\ {StrKey(s_a), StrKey(s_a_1), StrKey(s_a_3)} = KeysToAvoid

----------------------------------------------------------------------------
(* Properties of the tree with attribute items.                            *)

\* move_to of item id to dst is one of the moves C8 lists.
MoveIsBarred(id, dst) ==
    \/ ~isgroup(items, dst)
    \/ dst = items[id].parent
    \/ items[id].parent = NoParent
    \/ isattr(items, id)
    \/ \E c \in Range(items[dst].children) : ItemKey(items, c) = ItemKey(items, id)

\* C8: move_to returns False and changes neither the store nor the tree
\* when the destination is not a group, when it is the item's current
\* parent, when the item is the root or an attribute item, or when the
\* destination already has a child with the key of the moved item.
\* (Stated by contraposition: a call of move_to that did not return False
\* with the store and the tree as before is no call of a barred move.)
C8_MoveToRejections ==
    [][ (/\ last'.op = "move_to"
         /\ ~(last'.result = "false" /\ store' = store /\ items' = items)) =>
            \A id \in DOMAIN items, dst \in DOMAIN items :
                MoveIsBarred(id, dst) =>
                    \A pos \in Positions, storeOk \in BOOLEAN :
                        ~MoveTo(id, dst, pos, storeOk)
      ]_vars

\* C8 witness: a move_to turned down because the destination holds a child
\* with the key of the item.
C8_Witness_CollisionRejected ==
    /\ last.op = "move_to" /\ last.result = "false" /\ last.why = "collision"

\* C9: insert_child_attr on a list attribute at position p puts the value at
\* position p of the list in the store, adds a new item with index p at row
\* p, raises by one the index of every item that was at row >= p and leaves
\* the index of the items before p as it was.
C9_ListInsertShiftsIndices ==
    [][ (/\ last'.op = "insert_child_attr" /\ last'.result = "true"
         /\ isattr(items, last'.item)
         /\ AttrValue(store, items, last'.item).t = "l") =>
            LET id == last'.item
                p == last'.pos
                new == last'.dst
                old_list == AttrValue(store, items, id).e
                new_list == AttrValue(store', items', id).e
                kids == items[id].children
            IN  /\ AttrValue(store', items', id).t = "l"
                /\ Len(new_list) = Len(old_list) + 1
                /\ new_list[p + 1].v \in AttrValues
                /\ \A i \in 1..Len(old_list) :
                      new_list[IF i <= p THEN i ELSE i + 1] = old_list[i]
                /\ new \notin DOMAIN items
                /\ Len(items'[id].children) = Len(kids) + 1
                /\ items'[id].children[p + 1] = new
                /\ items'[new].key = IntKey(p)
                /\ \A i \in 1..Len(kids) :
                      /\ items'[id].children[IF i <= p THEN i ELSE i + 1] = kids[i]
                      /\ items'[kids[i]].key =
                            IntKey(items[kids[i]].key.i + (IF i <= p THEN 0 ELSE 1))
      ]_vars

\* C9 witness: an insertion into the list with an item before and an item
\* after the new one.
C9_Witness_InsertedInTheMiddle ==
    /\ last.op = "insert_child_attr" /\ last.result = "true"
    /\ isattr(items, last.item)
    /\ AttrValue(store, items, last.item).t = "l"
    /\ last.pos >= 1
    /\ last.pos + 1 < Len(items[last.item].children)

\* C10: remove_children(p, count) on a list attribute deletes the elements
\* p .. p + count - 1 of the list in the store and their items, lowers by
\* count the index of every item after them and leaves the index of the
\* items before p as it was.
C10_ListRemoveShiftsIndices ==
    [][ (/\ last'.op = "remove_children" /\ last'.result = "true"
         /\ isattr(items, last'.item)
         /\ AttrValue(store, items, last'.item).t = "l") =>
            LET id == last'.item
                p == last'.pos
                n == last'.count
                old_list == AttrValue(store, items, id).e
                new_list == AttrValue(store', items', id).e
                kids == items[id].children
                Left(i) == IF i <= p THEN i ELSE i - n
            IN  /\ AttrValue(store', items', id).t = "l"
                /\ Len(new_list) = Len(old_list) - n
                /\ Len(items'[id].children) = Len(kids) - n
                /\ \A i \in 1..Len(old_list) :
                      (i <= p \/ i > p + n) => new_list[Left(i)] = old_list[i]
                /\ \A i \in 1..Len(kids) :
                      IF i <= p \/ i > p + n
                      THEN /\ items'[id].children[Left(i)] = kids[i]
                           /\ items'[kids[i]].key =
                                 IntKey(items[kids[i]].key.i - (IF i <= p THEN 0 ELSE n))
                      ELSE kids[i] \notin DOMAIN items'
      ]_vars

\* C10 witness: two elements removed from the head of the list, with an
\* item left after them.
C10_Witness_RemovedTwoBeforeOne ==
    /\ last.op = "remove_children" /\ last.result = "true"
    /\ isattr(items, last.item)
    /\ AttrValue(store, items, last.item).t = "l"
    /\ last.count = 2
    /\ last.pos = 0
    /\ Len(items[last.item].children) >= 1

\* The item of the list attribute l of group a in the tree first built, and
\* the tree first built.
AttrItems == BuildTree(AttrStore, <<>>, TRUE, TRUE, TRUE)
ListItem == CHOOSE x \in DOMAIN AttrItems : AttrItems[x].key = StrKey(s_l)

\* C11: insert_child_attr at position p of a list attribute followed by
\* remove_children(p, 1) leaves the list of the store with the elements it
\* had before the insertion, in the same order, and every child item with
\* the index it had before the insertion.  (The first call made on the tree
\* finds the list as the tree was built from it.)
C11_ListInsertRemoveRoundTrip ==
    [][ (/\ calls = 1
         /\ last.op = "insert_child_attr" /\ last.result = "true"
         /\ last.item = ListItem
         /\ last'.op = "remove_children" /\ last'.result = "true"
         /\ last'.item = ListItem /\ last'.pos = last.pos /\ last'.count = 1) =>
            /\ AttrValue(store', items', ListItem) = ListOf(ListValues)
            /\ items'[ListItem].children = AttrItems[ListItem].children
            /\ \A c \in Range(AttrItems[ListItem].children) :
                  items'[c].key = AttrItems[c].key
      ]_vars

\* C11 witness: after two calls, the second a remove_children(1, 1) on the
\* list, the list has its three first elements again: the first call put a
\* fourth one at position 1.
C11_Witness_RoundTripAtOne ==
    /\ calls = 2
    /\ last.op = "remove_children" /\ last.result = "true"
    /\ last.item = ListItem /\ last.pos = 1 /\ last.count = 1
    /\ AttrValue(store, items, ListItem) = ListOf(ListValues)

----------------------------------------------------------------------------
(* zarr_path_utils.py: the parser of path patterns.  A pattern such as     *)
(* 'run[0]/sweep[:2,3]/...' is split into segments (name, indices); an     *)
(* index is an int, a list of ints or a slice.  None is NoInt; a parse     *)
(* that raises (ValueError / TypeError) gives ok = FALSE.                  *)

Dot == "."
Colon == ":"
Comma == ","
LBracket == "["
RBracket == "]"
Minus == "-"
Star == <<"*">>
Ellipsis == <<".", ".", ".">>

\* s.endswith(suf)
EndsWith(s, suf) == Len(suf) <= Len(s) /\ SubSeq(s, Len(s) - Len(suf) + 1, Len(s)) = suf

\* s.split(c) for a single character c
RECURSIVE SplitChar(_, _)
SplitChar(s, c) ==
    LET i == FindSub(s, <<c>>)
    IN  IF i = 0 THEN <<s>>
        ELSE <<SubSeq(s, 1, i - 1)>> \o SplitChar(SubSeq(s, i + 1, Len(s)), c)

\* An optional int: None, or the int v.
NoInt == [some |-> FALSE, v |-> 0]
SomeInt(v) == [some |-> TRUE, v |-> v]

IsDigit(c) == c \in {"0", "1", "2", "3", "4", "5", "6", "7", "8", "9"}

\* The value of a non-empty string of digits.
RECURSIVE DigitsValue(_)
DigitsValue(s) ==
    IF s = <<>> THEN 0
    ELSE 10 * DigitsValue(SubSeq(s, 1, Len(s) - 1)) + (Ord(s[Len(s)]) - Ord("0"))

\* int(s): blanks around the number and a sign are accepted; NoInt stands
\* for ValueError.
ParseInt(s0) ==
    LET s == StripChar(s0, Space)
        neg == s # <<>> /\ s[1] = Minus
        digits == IF s # <<>> /\ s[1] \in {Minus, "+"} THEN Tail(s) ELSE s
    IN  IF digits = <<>> \/ \E i \in 1..Len(digits) : ~IsDigit(digits[i]) THEN NoInt
        ELSE SomeInt(IF neg THEN 0 - DigitsValue(digits) ELSE DigitsValue(digits))

\* str(i) for any int i
StrInt(i) == IF i < 0 THEN <<Minus>> \o Str(0 - i) ELSE Str(i)

\* The three sorts of index.
IntIndex(n) == [t |-> "int", n |-> n, ns |-> <<>>, start |-> NoInt, stop |-> NoInt, step |-> NoInt]
ListIndex(ns) == [t |-> "list", n |-> 0, ns |-> ns, start |-> NoInt, stop |-> NoInt, step |-> NoInt]
SliceIndex(start, stop, step) ==
    [t |-> "slice", n |-> 0, ns |-> <<>>, start |-> start, stop |-> stop, step |-> step]
BadIndex == [t |-> "error", n |-> 0, ns |-> <<>>, start |-> NoInt, stop |-> NoInt, step |-> NoInt]

\* A split at every comma, bracketed or not.
CommaSplitsAlways(exp, i) == TRUE

\* re.split(r',(?=[^\]]*(?:\[|$))', exp): the comma at position i (from 1)
\* splits when, after it, a '[' or the end comes before any ']'.
CommaSplits(exp, i) ==
    LET rest == SubSeq(exp, i + 1, Len(exp))
        close == FindSub(rest, <<RBracket>>)
        open == FindSub(rest, <<LBracket>>)
    IN  close = 0 \/ (open # 0 /\ open < close)

RECURSIVE SplitIndexExp(_, _)
SplitIndexExp(exp, from) ==
    LET cuts == {i \in from..Len(exp) : exp[i] = Comma /\ CommaSplits(exp, i)}
        i == CHOOSE c \in cuts : \A d \in cuts : c <= d
    IN  IF cuts = {} THEN <<SubSeq(exp, from, Len(exp))>>
        ELSE <<SubSeq(exp, from, i - 1)>> \o SplitIndexExp(exp, i + 1)

\* One part of an index expression: '[5, 7, 8]', '1:3', ':', '5'.
ParseIndexPart(part0) ==
    LET part == StripChar(part0, Space)
        inner == SplitChar(SubSeq(part, 2, Len(part) - 1), Comma)
        fields == SplitChar(part, Colon)
        Field(i) == IF fields[i] = <<>> THEN NoInt ELSE ParseInt(fields[i])
        FieldOk(i) == fields[i] = <<>> \/ ParseInt(fields[i]).some
    IN  IF part # <<>> /\ part[1] = LBracket /\ part[Len(part)] = RBracket
        THEN IF \A i \in 1..Len(inner) : ParseInt(inner[i]).some
             THEN ListIndex([i \in 1..Len(inner) |-> ParseInt(inner[i]).v])
             ELSE BadIndex
        ELSE IF HasChar(part, Colon)
        THEN IF Len(fields) > 3 \/ \E i \in 1..Len(fields) : ~FieldOk(i) THEN BadIndex
             ELSE IF Len(fields) = 2 THEN SliceIndex(Field(1), Field(2), NoInt)
             ELSE SliceIndex(Field(1), Field(2), Field(3))
        ELSE IF ParseInt(part).some THEN IntIndex(ParseInt(part).v)
        ELSE BadIndex

\* index_exp(exp)
IndexExp(exp) ==
    LET parts == SplitIndexExp(exp, 1)
    IN  [i \in 1..Len(parts) |-> ParseIndexPart(parts[i])]

\* name_index_exp(exp): [name, indices]
NameIndexExp(exp) ==
    LET pos == FindSub(exp, <<LBracket>>)
    IN  IF EndsWith(exp, <<RBracket>>) /\ pos # 0
        THEN [name |-> StripChar(SubSeq(exp, 1, pos - 1), Space),
              indices |-> IndexExp(SubSeq(exp, pos + 1, Len(exp) - 1))]
        ELSE [name |-> exp, indices |-> <<>>]

\* slice_path(path)
SlicePath(path) ==
    LET parts == SplitSlash(StripChar(path, Slash))
    IN  [i \in 1..Len(parts) |-> NameIndexExp(StripChar(parts[i], Space))]

\* The pattern parses without an exception.
SlicePathOk(path) ==
    \A i \in 1..Len(SlicePath(path)) :
        \A j \in 1..Len(SlicePath(path)[i].indices) :
            SlicePath(path)[i].indices[j].t # "error"

----------------------------------------------------------------------------
(* zarr_path_utils.py: path_slice_regex and path_in_slice.  The regex is a *)
(* sequence of tokens, one per element of the pattern the code puts into   *)
(* the regex string:                                                       *)
(*   lit c    the character c ('\\.' is lit ".")                           *)
(*   any      '.' (a dot of a name, which the code does not escape)        *)
(*   any+     '.+'            notslash+  '[^/]+'       digits+  '[0-9]+'   *)
(*   cap      '([0-9]+)'      alt        '(?:s1|s2|...)'                   *)

Lit(c) == [t |-> "lit", c |-> c, alts |-> <<>>]
AnyChar == [t |-> "any", c |-> "", alts |-> <<>>]
AnyPlus == [t |-> "any+", c |-> "", alts |-> <<>>]
NotSlashPlus == [t |-> "notslash+", c |-> "", alts |-> <<>>]
DigitsPlus == [t |-> "digits+", c |-> "", alts |-> <<>>]
Capture == [t |-> "cap", c |-> "", alts |-> <<>>]
Alt(alts) == [t |-> "alt", c |-> "", alts |-> alts]

\* The tokens of a string put into the regex as it is: a '.' matches any
\* character, every other character of a name matches itself.
RECURSIVE NameTokens(_)
NameTokens(name) ==
    IF name = <<>> THEN <<>>
    ELSE <<IF name[1] = Dot THEN AnyChar ELSE Lit(name[1])>> \o NameTokens(Tail(name))

\* slice.indices(length) as [start, stop, step]; with ok = FALSE for the
\* ValueError of a zero step or a negative length.
SliceIndices(ind, length) ==
    LET step == IF ind.step.some THEN ind.step.v ELSE 1
        lower == IF step < 0 THEN -1 ELSE 0
        upper == IF step < 0 THEN length - 1 ELSE length
        Clip(x) == IF x < 0
                   THEN (IF x + length < lower THEN lower ELSE x + length)
                   ELSE (IF x > upper THEN upper ELSE x)
        start == IF ~ind.start.some THEN (IF step < 0 THEN upper ELSE lower)
                 ELSE Clip(ind.start.v)
        stop == IF ~ind.stop.some THEN (IF step < 0 THEN lower ELSE upper)
                ELSE Clip(ind.stop.v)
    IN  [ok |-> step # 0 /\ length >= 0, start |-> start, stop |-> stop, step |-> step]

\* i in range(r.start, r.stop, r.step)
InRange(i, r) ==
    IF r.step > 0 THEN i >= r.start /\ i < r.stop /\ (i - r.start) % r.step = 0
    ELSE i <= r.start /\ i > r.stop /\ (r.start - i) % (0 - r.step) = 0

\* list(range(r.start, r.stop, r.step))
RECURSIVE RangeList(_)
RangeList(r) ==
    IF (r.step > 0 /\ r.start >= r.stop) \/ (r.step < 0 /\ r.start <= r.stop) THEN <<>>
    ELSE <<r.start>> \o RangeList([r EXCEPT !.start = r.start + r.step])

\* '|'.join([str(i) for i in ns]) as the alternatives of a group: the
\* empty join is the one empty alternative.
Alternatives(ns) ==
    IF ns = <<>> THEN << <<>> >> ELSE [i \in 1..Len(ns) |-> StrInt(ns[i])]

\* The tokens one index adds to the regex.
IndexTokens(ind) ==
    IF ind.t = "int" THEN <<Lit(Dot)>> \o [i \in 1..Len(StrInt(ind.n)) |-> Lit(StrInt(ind.n)[i])]
    ELSE IF ind.t = "list" THEN <<Lit(Dot), Alt(Alternatives(ind.ns))>>
    ELSE IF ~ind.start.some /\ ~ind.stop.some /\ ~ind.step.some THEN <<Lit(Dot), DigitsPlus>>
    ELSE IF ~ind.stop.some THEN <<Lit(Dot), Capture>>
    ELSE IF ~SliceIndices(ind, ind.stop.v).ok THEN <<>>
    ELSE <<Lit(Dot), Alt(Alternatives(RangeList(SliceIndices(ind, ind.stop.v))))>>

RECURSIVE IndicesTokens(_)
IndicesTokens(indices) ==
    IF indices = <<>> THEN <<>>
    ELSE IndexTokens(indices[1]) \o IndicesTokens(Tail(indices))

\* The tokens one segment (name, indices) adds to the regex.
SegmentTokens(seg) ==
    IF seg.name = Ellipsis /\ seg.indices = <<>> THEN <<AnyPlus>>
    ELSE IF seg.name = Star /\ seg.indices = <<>> THEN <<NotSlashPlus, Lit(Slash)>>
    ELSE IF seg.indices = <<>> THEN NameTokens(seg.name) \o <<Lit(Slash)>>
    ELSE NameTokens(seg.name) \o IndicesTokens(seg.indices) \o <<Lit(Slash)>>

RECURSIVE SegmentsTokens(_)
SegmentsTokens(segs) ==
    IF segs = <<>> THEN <<>>
    ELSE SegmentTokens(segs[1]) \o SegmentsTokens(Tail(segs))

\* The slices of the capture groups, in the order of the groups.
RECURSIVE CaptureSlices(_)
CaptureSlices(indices) ==
    IF indices = <<>> THEN <<>>
    ELSE (IF indices[1].t = "slice" /\ ~indices[1].stop.some
             /\ (indices[1].start.some \/ indices[1].step.some)
          THEN <<indices[1]>> ELSE <<>>) \o CaptureSlices(Tail(indices))

RECURSIVE SegmentsCaptureSlices(_)
SegmentsCaptureSlices(segs) ==
    IF segs = <<>> THEN <<>>
    ELSE (IF segs[1].indices = <<>> THEN <<>> ELSE CaptureSlices(segs[1].indices))
         \o SegmentsCaptureSlices(Tail(segs))

\* regex.strip('/')
RECURSIVE LStripSlashTokens(_)
LStripSlashTokens(toks) ==
    IF toks # <<>> /\ toks[1] = Lit(Slash) THEN LStripSlashTokens(Tail(toks)) ELSE toks

RECURSIVE RStripSlashTokens(_)
RStripSlashTokens(toks) ==
    IF toks # <<>> /\ toks[Len(toks)] = Lit(Slash)
    THEN RStripSlashTokens(SubSeq(toks, 1, Len(toks) - 1)) ELSE toks

\* path_slice_regex(path) for a parsed pattern: [regex, slices]
PathSliceRegexOf(segs) ==
    [regex |-> RStripSlashTokens(LStripSlashTokens(SegmentsTokens(segs))),
     slices |-> SegmentsCaptureSlices(segs)]

\* path_slice_regex(path) for a pattern string
PathSliceRegex(path) == PathSliceRegexOf(SlicePath(path))

\* path_slice_regex raises: the pattern does not parse, or a slice with a
\* stop has a zero step or a negative stop (ValueError of slice.indices).
PathSliceRegexRaises(path) ==
    \/ ~SlicePathOk(path)
    \/ \E i \in 1..Len(SlicePath(path)) :
          \E j \in 1..Len(SlicePath(path)[i].indices) :
              LET ind == SlicePath(path)[i].indices[j]
              IN  ind.t = "slice" /\ ind.stop.some /\ ~SliceIndices(ind, ind.stop.v).ok

\* The character c is one a token of a repeated class matches.
InClass(tok, c) ==
    IF tok.t = "any+" THEN TRUE
    ELSE IF tok.t = "notslash+" THEN c # Slash
    ELSE IsDigit(c)

\* The length of the longest prefix of s made of characters of the class.
RECURSIVE ClassRun(_, _)
ClassRun(tok, s) ==
    IF s # <<>> /\ InClass(tok, s[1]) THEN 1 + ClassRun(tok, Tail(s)) ELSE 0

\* re.fullmatch(regex, s) by backtracking, as the re module searches: a
\* repetition tries its longest run first, a group its alternatives from
\* left to right.  The result is [ok, caps]: whether the whole of s is
\* matched, and the strings of the capture groups of the match found.
RECURSIVE ReMatch(_, _, _)
RECURSIVE ReMatchRun(_, _, _, _)
RECURSIVE ReMatchAlt(_, _, _, _)
ReMatch(toks, s, caps) ==
    IF toks = <<>> THEN [ok |-> s = <<>>, caps |-> caps]
    ELSE IF toks[1].t = "lit"
    THEN IF s # <<>> /\ s[1] = toks[1].c THEN ReMatch(Tail(toks), Tail(s), caps)
         ELSE [ok |-> FALSE, caps |-> <<>>]
    ELSE IF toks[1].t = "any"
    THEN IF s # <<>> THEN ReMatch(Tail(toks), Tail(s), caps)
         ELSE [ok |-> FALSE, caps |-> <<>>]
    ELSE IF toks[1].t = "alt" THEN ReMatchAlt(toks, s, caps, 1)
    ELSE ReMatchRun(toks, s, caps, ClassRun(toks[1], s))

\* The repetition toks[1] on the first n characters of s, then on fewer.
ReMatchRun(toks, s, caps, n) ==
    IF n < 1 THEN [ok |-> FALSE, caps |-> <<>>]
    ELSE LET r == ReMatch(Tail(toks), SubSeq(s, n + 1, Len(s)),
                          IF toks[1].t = "cap" THEN Append(caps, SubSeq(s, 1, n)) ELSE caps)
         IN  IF r.ok THEN r ELSE ReMatchRun(toks, s, caps, n - 1)

\* The group toks[1] from its k-th alternative on.
ReMatchAlt(toks, s, caps, k) ==
    IF k > Len(toks[1].alts) THEN [ok |-> FALSE, caps |-> <<>>]
    ELSE LET a == toks[1].alts[k]
             r == IF StartsWith(s, a)
                  THEN ReMatch(Tail(toks), SubSeq(s, Len(a) + 1, Len(s)), caps)
                  ELSE [ok |-> FALSE, caps |-> <<>>]
         IN  IF r.ok THEN r ELSE ReMatchAlt(toks, s, caps, k + 1)

\* The checks of the captured indexes against their slices:
\*     index = int(group)
\*     if index not in range(*group_slice.indices(index + 1)): return False
CapturesInSlices(caps, slices) ==
    \A i \in 1..(IF Len(caps) < Len(slices) THEN Len(caps) ELSE Len(slices)) :
        InRange(DigitsValue(caps[i]), SliceIndices(slices[i], DigitsValue(caps[i]) + 1))

\* path_in_slice(path, (regex, group_slices))
PathInRegex(path, compiled) ==
    LET result == ReMatch(compiled.regex, path, <<>>)
    IN  result.ok /\ CapturesInSlices(result.caps, compiled.slices)

\* path_in_slice(path, path_slice) for a pattern string that compiles
PathInSlice(path, path_slice) == PathInRegex(path, PathSliceRegex(path_slice))

----------------------------------------------------------------------------
(* zarr_path_utils.py: find_leaves                                         *)

\* The keys of a group, groups and arrays alike, sorted; none for an array.
SortedKeys(st, path) ==
    IF st[path].kind # "group" THEN <<>>
    ELSE SortedSeq({LastPart(p) : p \in {q \in DOMAIN st :
                       q # <<>> /\ ParentPath(q) = path /\ IsObject(st, q)}})

\* root.visitvalues(func): the objects below path, each before its own
\* children, the children of a group by sorted key; path itself left out.
RECURSIVE VisitValues(_, _)
RECURSIVE VisitKeys(_, _, _)
VisitValues(st, path) == VisitKeys(st, path, SortedKeys(st, path))

VisitKeys(st, path, keys) ==
    IF keys = <<>> THEN <<>>
    ELSE <<ChildPath(path, keys[1])>> \o VisitValues(st, ChildPath(path, keys[1]))
             \o VisitKeys(st, path, Tail(keys))

\* not isinstance(obj, Group) or len(obj.keys()) == 0
IsTrueLeaf(st, obj) == st[obj].kind # "group" \/ SortedKeys(st, obj) = <<>>

\* The mutation of KeepsOnlyLeaves that filters for every pattern.
KeepsOnlyLeavesAlways(path_slice) == TRUE

\* if path_slice.endswith('...'): only accept true leaves
KeepsOnlyLeaves(path_slice) == EndsWith(path_slice, Ellipsis)

\* _find_leaves(obj): what the visit of one object appends to the result.
FindLeavesVisit(st, obj, path_slice, compiled, include_arrays, include_groups) ==
    IF st[obj].kind = "array" /\ ~include_arrays THEN <<>>
    ELSE IF st[obj].kind = "group" /\ ~include_groups THEN <<>>
    ELSE IF ~PathInRegex(StripChar(obj, Slash), compiled) THEN <<>>
    ELSE IF KeepsOnlyLeaves(path_slice) /\ ~IsTrueLeaf(st, obj) THEN <<>>
    ELSE <<obj>>

RECURSIVE FindLeavesOver(_, _, _, _, _, _)
FindLeavesOver(st, objs, path_slice, compiled, include_arrays, include_groups) ==
    IF objs = <<>> THEN <<>>
    ELSE FindLeavesVisit(st, objs[1], path_slice, compiled, include_arrays, include_groups)
           \o FindLeavesOver(st, Tail(objs), path_slice, compiled,
                             include_arrays, include_groups)

\* find_leaves(root, path_slice, include_arrays, include_groups) for a
\* pattern that compiles: the paths of the objects returned, in order.
FindLeaves(st, rootPath, path_slice, include_arrays, include_groups) ==
    FindLeavesOver(st, VisitValues(st, rootPath), path_slice,
                   PathSliceRegex(path_slice), include_arrays, include_groups)

----------------------------------------------------------------------------
(* The path functions called once on arguments fixed at the start: the     *)
(* record of the pending call holds the arguments, the call fills in the   *)
(* result.                                                                 *)

\* The arguments of a call not made yet.
Pending(op) == last.op = "none" /\ last.why = op

\* path_in_slice(path, path_slice)
PathInSliceCall ==
    /\ ~raised /\ calls < MaxCalls
    /\ Pending("path_in_slice")
    /\ IF PathSliceRegexRaises(last.path_slice)
       THEN /\ last' = [last EXCEPT !.op = "path_in_slice", !.result = "raised",
                                    !.why = "ValueError"]
            /\ raised' = TRUE
       ELSE /\ last' = [last EXCEPT !.op = "path_in_slice", !.why = "done",
                            !.result = IF PathInSlice(last.path, last.path_slice)
                                       THEN "true" ELSE "false"]
            /\ UNCHANGED raised
    /\ calls' = calls + 1
    /\ UNCHANGED <<store, items>>

\* find_leaves(root, path_slice, include_arrays, include_groups) on the
\* root group of the store
FindLeavesCall ==
    /\ ~raised /\ calls < MaxCalls
    /\ Pending("find_leaves")
    /\ IF PathSliceRegexRaises(last.path_slice)
       THEN /\ last' = [last EXCEPT !.op = "find_leaves", !.result = "raised",
                                    !.why = "ValueError"]
            /\ raised' = TRUE
       ELSE /\ last' = [last EXCEPT !.op = "find_leaves", !.why = "done",
                            !.result = "true",
                            !.found = FindLeaves(store, <<>>, last.path_slice,
                                                 last.include_arrays, last.include_groups)]
            /\ UNCHANGED raised
    /\ calls' = calls + 1
    /\ UNCHANGED <<store, items>>

----------------------------------------------------------------------------
(* path_in_slice on a pattern and a candidate path drawn from the sets     *)
(* below: literal names with and without a dot, wildcards, ellipses, and   *)
(* exact, list, bounded and open-ended indices; the last two patterns do   *)
(* not compile.                                                            *)

\* The patterns: a  a.b  a/b  *  a/*  .../b  .../*  a/...
\*   ...  c[1:]  c[1::2]  c[::2]  c[-1::2]  c[:]  c[0:2]
\*   c[2:2]  c[[0,2]]  c[1]  a/c[:2,1]  .../c[1:]/...  c[x]  c[0:2:0]
PathSlices ==
    { <<"a">>,
      <<"a", ".", "b">>,
      <<"a", "/", "b">>,
      <<"*">>,
      <<"a", "/", "*">>,
      <<".", ".", ".", "/", "b">>,
      <<".", ".", ".", "/", "*">>,
      <<"a", "/", ".", ".", ".">>,
      <<".", ".", ".">>,
      <<"c", "[", "1", ":", "]">>,
      <<"c", "[", "1", ":", ":", "2", "]">>,
      <<"c", "[", ":", ":", "2", "]">>,
      <<"c", "[", "-", "1", ":", ":", "2", "]">>,
      <<"c", "[", ":", "]">>,
      <<"c", "[", "0", ":", "2", "]">>,
      <<"c", "[", "2", ":", "2", "]">>,
      <<"c", "[", "[", "0", ",", "2", "]", "]">>,
      <<"c", "[", "1", "]">>,
      <<"a", "/", "c", "[", ":", "2", ",", "1", "]">>,
      <<".", ".", ".", "/", "c", "[", "1", ":", "]", "/", ".", ".", ".">>,
      <<"c", "[", "x", "]">>,
      <<"c", "[", "0", ":", "2", ":", "0", "]">> }

\* The candidate paths, the empty path first.
CandidatePaths ==
    { <<>>,
      <<"a">>,
      <<"b">>,
      <<"a", "b">>,
      <<"a", "/", "b">>,
      <<"a", "x", "b">>,
      <<"a", ".", "b">>,
      <<"a", "/">>,
      <<"a", "/", "b", "/", "c">>,
      <<"x", "/", "b">>,
      <<"x", "/", "a", "b">>,
      <<"x", "/", "y", "/", "b">>,
      <<"c", ".", "0">>,
      <<"c", ".", "1">>,
      <<"c", ".", "2">>,
      <<"c", ".", "3">>,
      <<"c", ".">>,
      <<"c", ".", "0", "1">>,
      <<"a", "/", "c", ".", "0", ".", "1">>,
      <<"a", "/", "c", ".", "1", ".", "1">>,
      <<"a", "/", "c", ".", "1", ".", "0">>,
      <<"x", "/", "c", ".", "1", "/", "y">>,
      <<"x", "/", "c", ".", "0", "/", "y">>,
      <<"x", "/", "c", ".", "1", "/", "c", ".", "0", "/", "y">> }

InitPath ==
    /\ store = StoreOf({}, {})
    /\ items = BuildTree(store, <<>>, FALSE, TRUE, TRUE)
    /\ last \in { [NoCall EXCEPT !.why = "path_in_slice", !.path = p, !.path_slice = s] :
                     p \in CandidatePaths, s \in PathSlices }
    /\ raised = FALSE
    /\ calls = 0

NextPath == PathInSliceCall

SpecPath == InitPath /\ [][NextPath]_vars

----------------------------------------------------------------------------
(* Claims about path_in_slice                                              *)

\* The segments of a pattern that compiles, and the components of a path.
Segments(path_slice) == SlicePath(path_slice)
Components(path) == SplitSlash(path)

HasEllipsis(path_slice) ==
    \E i \in 1..Len(Segments(path_slice)) :
        Segments(path_slice)[i].name = Ellipsis /\ Segments(path_slice)[i].indices = <<>>

\* path_in_slice returned for the pending pattern and path.
Matched == last.op = "path_in_slice" /\ last.result = "true"
NotMatched == last.op = "path_in_slice" /\ last.result = "false"

\* C12: a pattern without an ellipsis made of n segments is matched only by
\* paths of exactly n components: no prefix, no descendant, no path with a
\* trailing '/'.
C12_FullStructuralMatch ==
    (Matched /\ ~HasEllipsis(last.path_slice)) =>
        Len(Components(last.path)) = Len(Segments(last.path_slice))

\* The pattern is one segment name[start::step]: one slice without a stop.
IsOpenSlice(path_slice) ==
    /\ Len(Segments(path_slice)) = 1
    /\ Len(Segments(path_slice)[1].indices) = 1
    /\ Segments(path_slice)[1].indices[1].t = "slice"
    /\ ~Segments(path_slice)[1].indices[1].stop.some

\* The path is the component name.i for some digits i.
IsIndexed(path, name) ==
    /\ Len(path) > Len(name) + 1
    /\ SubSeq(path, 1, Len(name) + 1) = name \o <<Dot>>
    /\ \A k \in (Len(name) + 2)..Len(path) : IsDigit(path[k])

IndexOf(path, name) == DigitsValue(SubSeq(path, Len(name) + 2, Len(path)))

StartOf(ind) == IF ind.start.some THEN ind.start.v ELSE 0
StepOf(ind) == IF ind.step.some THEN ind.step.v ELSE 1

\* C13: for a term start::step without a stop, of any integer start and any
\* step >= 1, the component name.i is accepted iff i >= start and
\* (i - start) % step = 0, the start defaulting to 0 and the step to 1.
C13_OpenSliceAcceptsFromStartByStep ==
    (/\ Matched \/ NotMatched
     /\ IsOpenSlice(last.path_slice)
     /\ StepOf(Segments(last.path_slice)[1].indices[1]) >= 1
     /\ IsIndexed(last.path, Segments(last.path_slice)[1].name)) =>
        LET ind == Segments(last.path_slice)[1].indices[1]
            i == IndexOf(last.path, Segments(last.path_slice)[1].name)
        IN  Matched <=> (i >= StartOf(ind) /\ (i - StartOf(ind)) % StepOf(ind) = 0)

\* A segment other than an ellipsis is matched by the whole component: a
\* wildcard by any non-empty one, a name without indices by itself, a name
\* with indices by the name, a dot and more.
OnWholeComponent(seg, comp) ==
    IF seg.indices = <<>> /\ seg.name = Star THEN comp # <<>>
    ELSE IF seg.indices = <<>> THEN comp = seg.name
    ELSE StartsWith(comp, seg.name \o <<Dot>>)

\* The segments laid on the components in order: an ellipsis on one or more
\* components, every other segment on one.
RECURSIVE OnWholeComponents(_, _)
OnWholeComponents(segs, comps) ==
    IF segs = <<>> THEN comps = <<>>
    ELSE IF comps = <<>> THEN FALSE
    ELSE IF segs[1].name = Ellipsis /\ segs[1].indices = <<>>
    THEN \E k \in 1..Len(comps) :
            OnWholeComponents(Tail(segs), SubSeq(comps, k + 1, Len(comps)))
    ELSE /\ OnWholeComponent(segs[1], comps[1])
         /\ OnWholeComponents(Tail(segs), Tail(comps))

\* C14: in every path accepted for a pattern with an ellipsis, the ellipsis
\* lies on one or more whole components and the segments before and after
\* it on complete components.
C14_EllipsisTakesWholeComponents ==
    (Matched /\ HasEllipsis(last.path_slice)) =>
        OnWholeComponents(Segments(last.path_slice), Components(last.path))

\* The half-open range of a slice with a stop: {start, start + step, ...}
\* below the stop, the start defaulting to 0 and the step to 1.
BoundedSet(ind) ==
    {i \in 0..(ind.stop.v - 1) :
        i >= StartOf(ind) /\ (i - StartOf(ind)) % StepOf(ind) = 0}

\* The indexes one dimension of a bounded segment stands for.
IndexSet(ind) ==
    IF ind.t = "int" THEN {ind.n}
    ELSE IF ind.t = "list" THEN Range(ind.ns)
    ELSE BoundedSet(ind)

\* The pattern is made of literal names with exact, list and bounded-slice
\* indices only.
IsBounded(path_slice) ==
    \A i \in 1..Len(Segments(path_slice)) :
        LET seg == Segments(path_slice)[i]
        IN  /\ seg.indices # <<>> \/ seg.name \notin {Star, Ellipsis}
            /\ \A j \in 1..Len(seg.indices) :
                   seg.indices[j].t = "slice" => seg.indices[j].stop.some

\* The suffixes .i.j... over the index sets of the dimensions.
RECURSIVE IndexSuffixes(_)
IndexSuffixes(indices) ==
    IF indices = <<>> THEN {<<>>}
    ELSE {<<Dot>> \o StrInt(i) \o rest :
             i \in IndexSet(indices[1]), rest \in IndexSuffixes(Tail(indices))}

\* The cross-product of the per-dimension index sets of the segments.
RECURSIVE CrossProduct(_)
CrossProduct(segs) ==
    IF segs = <<>> THEN {<<>>}
    ELSE {IF Len(segs) = 1 THEN segs[1].name \o suffix
          ELSE segs[1].name \o suffix \o <<Slash>> \o rest :
             suffix \in IndexSuffixes(segs[1].indices), rest \in CrossProduct(Tail(segs))}

\* C15: a pattern of literal names with exact, list and bounded-slice
\* indices accepts exactly the paths of the cross-product of its index sets.
C15_BoundedPatternIsCrossProduct ==
    ((Matched \/ NotMatched) /\ IsBounded(last.path_slice)) =>
        (Matched <=> last.path \in CrossProduct(Segments(last.path_slice)))

\* The path is one component.
IsComponent(path) == ~HasChar(path, Slash)

\* The pattern is one segment name[start:stop:step] with a stop.
IsBoundedSlice(path_slice) ==
    /\ Len(Segments(path_slice)) = 1
    /\ Len(Segments(path_slice)[1].indices) = 1
    /\ Segments(path_slice)[1].indices[1].t = "slice"
    /\ Segments(path_slice)[1].indices[1].stop.some

\* C16: a segment name[start:stop:step] with a stop matches the component
\* name.i iff i is in the half-open range of the slice, and no component at
\* all when the range is empty.
C16_BoundedSliceMatchesItsRange ==
    (/\ Matched \/ NotMatched
     /\ IsBoundedSlice(last.path_slice)
     /\ IsComponent(last.path)) =>
        LET seg == Segments(last.path_slice)[1]
        IN  Matched <=> \E i \in BoundedSet(seg.indices[1]) :
                           last.path = seg.name \o <<Dot>> \o StrInt(i)

\* The pattern is one literal name without indices.
IsLiteral(path_slice) ==
    /\ Len(Segments(path_slice)) = 1
    /\ Segments(path_slice)[1].indices = <<>>
    /\ Segments(path_slice)[1].name \notin {Star, Ellipsis}

\* C17: a literal segment without indices matches a component iff the
\* component equals the name character for character, dotted names
\* included.
C17_LiteralMatchesItself ==
    (/\ Matched \/ NotMatched
     /\ IsLiteral(last.path_slice)
     /\ IsComponent(last.path)) =>
        (Matched <=> last.path = Segments(last.path_slice)[1].name)

HasStar(path_slice) ==
    \E i \in 1..Len(Segments(path_slice)) :
        Segments(path_slice)[i].name = Star /\ Segments(path_slice)[i].indices = <<>>

\* C18: in every path accepted for a pattern with a '*' segment, the '*'
\* lies on exactly one component, a non-empty string without '/': never on
\* none, never on part of one, never on several.
C18_StarTakesOneComponent ==
    (Matched /\ HasStar(last.path_slice)) =>
        /\ Len(Components(last.path)) >= Len(Segments(last.path_slice))
        /\ OnWholeComponents(Segments(last.path_slice), Components(last.path))

----------------------------------------------------------------------------
(* find_leaves on the root group of a small hierarchy, for a pattern and   *)
(* the two include flags fixed at the start.                               *)

\* The patterns: ...  .../  a/...  a/*  *  a/b  a/b...
\*   .../b  .../a  c[1:]/*  c[:]  c[x]
LeafPathSlices ==
    { <<".", ".", ".">>,
      <<".", ".", ".", "/">>,
      <<"a", "/", ".", ".", ".">>,
      <<"a", "/", "*">>,
      <<"*">>,
      <<"a", "/", "b">>,
      <<"a", "/", "b", ".", ".", ".">>,
      <<".", ".", ".", "/", "b">>,
      <<".", ".", ".", "/", "a">>,
      <<"c", "[", "1", ":", "]", "/", "*">>,
      <<"c", "[", ":", "]">>,
      <<"c", "[", "x", "]">> }

\* a { b { c }, y }, x: the groups a, a/b and the empty x, the arrays a/b/c
\* and a/y.
LeafStore1 ==
    StoreOf({<<"a">>, <<"a", "/", "b">>, <<"x">>},
            {<<"a", "/", "b", "/", "c">>, <<"a", "/", "y">>})

\* a { b... { y } }, b: a group whose name ends in three dots.
LeafStore2 ==
    StoreOf({<<"a">>, <<"a", "/", "b", ".", ".", ".">>, <<"b">>},
            {<<"a", "/", "b", ".", ".", ".", "/", "y">>})

\* c.0 { a }, c.1 { a }: indexed groups, a below c.0 a group and below c.1
\* an array.
LeafStore3 ==
    StoreOf({<<"c", ".", "0">>, <<"c", ".", "1">>, <<"c", ".", "0", "/", "a">>},
            {<<"c", ".", "1", "/", "a">>})

LeafStores == { LeafStore1, LeafStore2, LeafStore3 }

InitLeaves ==
    /\ store \in LeafStores
    /\ items = BuildTree(store, <<>>, FALSE, TRUE, TRUE)
    /\ last \in { [NoCall EXCEPT !.why = "find_leaves", !.path_slice = s,
                                  !.include_arrays = ia, !.include_groups = ig] :
                     s \in LeafPathSlices, ia \in BOOLEAN, ig \in BOOLEAN }
    /\ raised = FALSE
    /\ calls = 0

NextLeaves == FindLeavesCall

SpecLeaves == InitLeaves /\ [][NextLeaves]_vars

----------------------------------------------------------------------------
(* Claims about find_leaves                                                *)

\* find_leaves returned for the pending pattern and flags.
Found == last.op = "find_leaves" /\ last.result = "true"

\* The objects find_leaves visits and does not skip for their kind, whose
\* whole path matches the pattern.
MatchingNodes ==
    {obj \in DOMAIN store \ {<<>>} :
        /\ \/ store[obj].kind = "array" /\ last.include_arrays
           \/ store[obj].kind = "group" /\ last.include_groups
        /\ PathInSlice(obj, last.path_slice)}

\* An array, or a group without children.
TrueLeaf(obj) ==
    \/ store[obj].kind = "array"
    \/ ~\E q \in DOMAIN store : q # <<>> /\ ParentPath(q) = obj

\* The final segment of the pattern, as slice_path splits it, is '...'.
FinalSegmentIsEllipsis(path_slice) ==
    LET seg == Segments(path_slice)[Len(Segments(path_slice))]
    IN  seg.name = Ellipsis /\ seg.indices = <<>>

\* C19: find_leaves returns the true leaves among the matching nodes when
\* the final segment of the pattern, as the parser splits it, is '...', and
\* every matching node for every other pattern.
C19_LeafFilterFollowsFinalSegment ==
    Found =>
        Range(last.found) =
            IF FinalSegmentIsEllipsis(last.path_slice)
            THEN {obj \in MatchingNodes : TrueLeaf(obj)}
            ELSE MatchingNodes

\* p comes before q in the pre-order of the hierarchy: p is an ancestor of
\* q, or at the first component where they differ p has the smaller key.
RECURSIVE KeysBefore(_, _)
KeysBefore(ps, qs) ==
    IF ps = <<>> THEN qs # <<>>
    ELSE IF qs = <<>> THEN FALSE
    ELSE IF ps[1] # qs[1] THEN StrLess(ps[1], qs[1])
    ELSE KeysBefore(Tail(ps), Tail(qs))

PreOrderBefore(p, q) == KeysBefore(Components(p), Components(q))

\* C20: for a pattern that does not end in an ellipsis (the string does not
\* end in '...', the test find_leaves makes), find_leaves returns exactly
\* the visited nodes whose whole path matches, each once, in pre-order; a
\* descendant of a matching node is returned only if it matches itself.
C20_FindLeavesReturnsMatchesInPreOrder ==
    (Found /\ ~EndsWith(last.path_slice, Ellipsis)) =>
        /\ Range(last.found) = MatchingNodes
        /\ \A i, j \in 1..Len(last.found) :
               i < j => PreOrderBefore(last.found[i], last.found[j])

\* A group with children is returned next to another node, and its child
\* that does not match is left out.
C20_Witness_GroupWithoutItsDescendants ==
    /\ Found /\ ~EndsWith(last.path_slice, Ellipsis)
    /\ Len(last.found) >= 2
    /\ \E i \in 1..Len(last.found) :
          \E q \in DOMAIN store :
              /\ q # <<>> /\ ParentPath(q) = last.found[i]
              /\ q \notin Range(last.found)

----------------------------------------------------------------------------
(* zarr_path_utils.py: find_first and find_all                             *)

\* objname = obj.path.strip('/').split('/')[-1]
ObjName(obj) == LastPart(StripChar(obj, Slash))

\* The mutation of NameMatches that compares the whole name only.
NameMatchesWhole(name, objname) == name = objname

\* name == objname or name == objname.split('.')[0]
NameMatches(name, objname) ==
    name = objname \/ name = SplitChar(objname, Dot)[1]

\* The mutation of KindSkipped that skips no object.
KindSkippedNever(st, obj, include_arrays, include_groups) == FALSE

\* The two early returns of the visit: an array without include_arrays, a
\* group without include_groups.
KindSkipped(st, obj, include_arrays, include_groups) ==
    \/ st[obj].kind = "array" /\ ~include_arrays
    \/ st[obj].kind = "group" /\ ~include_groups

\* _find_first(obj) and _find_all(obj): the object if it is kept.
FindVisit(st, obj, name, include_arrays, include_groups) ==
    IF KindSkipped(st, obj, include_arrays, include_groups) THEN <<>>
    ELSE IF NameMatches(name, ObjName(obj)) THEN <<obj>>
    ELSE <<>>

\* find_all: every visit appends to the list.
RECURSIVE FindAllOver(_, _, _, _, _)
FindAllOver(st, objs, name, include_arrays, include_groups) ==
    IF objs = <<>> THEN <<>>
    ELSE FindVisit(st, objs[1], name, include_arrays, include_groups)
           \o FindAllOver(st, Tail(objs), name, include_arrays, include_groups)

FindAll(st, rootPath, name, include_arrays, include_groups) ==
    FindAllOver(st, VisitValues(st, rootPath), name, include_arrays, include_groups)

\* find_first: visitvalues stops at the first visit that returns an object
\* and returns it; the empty sequence stands for None.
RECURSIVE FindFirstOver(_, _, _, _, _)
FindFirstOver(st, objs, name, include_arrays, include_groups) ==
    IF objs = <<>> THEN <<>>
    ELSE IF FindVisit(st, objs[1], name, include_arrays, include_groups) # <<>>
    THEN <<objs[1]>>
    ELSE FindFirstOver(st, Tail(objs), name, include_arrays, include_groups)

FindFirst(st, rootPath, name, include_arrays, include_groups) ==
    FindFirstOver(st, VisitValues(st, rootPath), name, include_arrays, include_groups)

\* find_first(root, name, include_arrays, include_groups) on the root group
FindFirstCall ==
    /\ ~raised /\ calls < MaxCalls
    /\ Pending("find_first")
    /\ last' = [last EXCEPT !.op = "find_first", !.why = "done", !.result = "true",
                            !.found = FindFirst(store, <<>>, last.key,
                                                last.include_arrays, last.include_groups)]
    /\ calls' = calls + 1
    /\ UNCHANGED <<store, items, raised>>

\* find_all(root, name, include_arrays, include_groups) on the root group
FindAllCall ==
    /\ ~raised /\ calls < MaxCalls
    /\ Pending("find_all")
    /\ last' = [last EXCEPT !.op = "find_all", !.why = "done", !.result = "true",
                            !.found = FindAll(store, <<>>, last.key,
                                              last.include_arrays, last.include_groups)]
    /\ calls' = calls + 1
    /\ UNCHANGED <<store, items, raised>>

----------------------------------------------------------------------------
(* The three searches on the root group of the small hierarchies, for a    *)
(* name or a pattern and the two include flags fixed at the start.         *)

\* The names searched for.
FindNames == { <<"a">>, <<"b">>, <<"c">>, <<"y">>, <<"c", ".", "1">>, <<"b", ".">> }

InitFind ==
    /\ store \in LeafStores
    /\ items = BuildTree(store, <<>>, FALSE, TRUE, TRUE)
    /\ last \in { [NoCall EXCEPT !.why = op, !.key = name,
                                  !.include_arrays = ia, !.include_groups = ig] :
                     op \in {"find_first", "find_all"}, name \in FindNames,
                     ia \in BOOLEAN, ig \in BOOLEAN }
               \cup
               { [NoCall EXCEPT !.why = "find_leaves", !.path_slice = s,
                                  !.include_arrays = ia, !.include_groups = ig] :
                     s \in LeafPathSlices, ia \in BOOLEAN, ig \in BOOLEAN }
    /\ raised = FALSE
    /\ calls = 0

NextFind ==
    \/ FindFirstCall
    \/ FindAllCall
    \/ FindLeavesCall

SpecFind == InitFind /\ [][NextFind]_vars

----------------------------------------------------------------------------
(* Claims about find_first and find_all                                    *)

\* The last component of a path, and that component cut at its first '.'.
LastComponent(obj) == Components(obj)[Len(Components(obj))]

CutAtDot(comp) ==
    IF HasChar(comp, Dot)
    THEN SubSeq(comp, 1, (CHOOSE i \in 1..Len(comp) :
                             comp[i] = Dot /\ \A k \in 1..(i - 1) : comp[k] # Dot) - 1)
    ELSE comp

\* The objects below the root that the flags of the call let through.
VisitedNodes ==
    {obj \in DOMAIN store \ {<<>>} :
        \/ store[obj].kind = "array" /\ last.include_arrays
        \/ store[obj].kind = "group" /\ last.include_groups}

\* The visited nodes that carry the name searched for.
NamedNodes ==
    {obj \in VisitedNodes :
        last.key = LastComponent(obj) \/ last.key = CutAtDot(LastComponent(obj))}

\* C21: find_all returns exactly the visited nodes whose last component is
\* the name, or is the name once cut at its first '.', in pre-order;
\* find_first returns the first of them, or none when there is none.
C21_FindAllAndFindFirst ==
    /\ (last.op = "find_all" /\ last.result = "true") =>
          /\ Range(last.found) = NamedNodes
          /\ \A i, j \in 1..Len(last.found) :
                 i < j => PreOrderBefore(last.found[i], last.found[j])
    /\ (last.op = "find_first" /\ last.result = "true") =>
          IF NamedNodes = {} THEN last.found = <<>>
          ELSE /\ Len(last.found) = 1
               /\ last.found[1] \in NamedNodes
               /\ \A obj \in NamedNodes \ {last.found[1]} :
                      PreOrderBefore(last.found[1], obj)

\* find_all found several nodes, one of them by its name cut at the dot.
C21_Witness_FoundByCutName ==
    /\ last.op = "find_all" /\ last.result = "true"
    /\ Len(last.found) >= 2
    /\ \E i \in 1..Len(last.found) : LastComponent(last.found[i]) # last.key

\* One of the three searches returned.
Searched == last.op \in {"find_first", "find_all", "find_leaves"} /\ last.result = "true"

\* The node is what the search looks for: it carries the name, or its path
\* matches the pattern (and it is a true leaf where find_leaves keeps only
\* those).
Qualifies(obj) ==
    IF last.op = "find_leaves"
    THEN /\ PathInSlice(obj, last.path_slice)
         /\ EndsWith(last.path_slice, Ellipsis) => TrueLeaf(obj)
    ELSE last.key = LastComponent(obj) \/ last.key = CutAtDot(LastComponent(obj))

\* C22: without include_groups no group is returned and without
\* include_arrays no array; the descendants of an excluded node are still
\* visited, so a node of the kind asked for that qualifies is found
\* whatever its ancestors are.
C22_IncludeFlags ==
    Searched =>
        /\ \A i \in 1..Len(last.found) :
               /\ store[last.found[i]].kind = "group" => last.include_groups
               /\ store[last.found[i]].kind = "array" => last.include_arrays
        /\ \A obj \in VisitedNodes :
               Qualifies(obj) =>
                   IF last.op = "find_first" THEN last.found # <<>>
                   ELSE obj \in Range(last.found)

\* Groups are excluded and an array below a group is returned.
C22_Witness_ArrayUnderExcludedGroup ==
    /\ Searched /\ ~last.include_groups
    /\ \E i \in 1..Len(last.found) :
          /\ store[last.found[i]].kind = "array"
          /\ ParentPath(last.found[i]) # <<>>
          /\ store[ParentPath(last.found[i])].kind = "group"

----------------------------------------------------------------------------
(* ZarrViewer.py: build_tree with a path pattern                           *)

\* The mutation of ChildHolding that finds no child: every step of a leaf's
\* chain makes a new item.
ChildHoldingNone(its, item, obj) == 0

\* The loop over item.child_items that looks for child_item.item_data ==
\* obj: the first child that holds the object, 0 if there is none.
ChildHolding(its, item, obj) ==
    LET holding == {j \in 1..Len(its[item].children) :
                       /\ its[its[item].children[j]].kind # "attr"
                       /\ its[its[item].children[j]].path = obj}
    IN  IF holding = {} THEN 0
        ELSE its[item].children[CHOOSE j \in holding : \A k \in holding : j <= k]

\* for i in range(len(leaf_path_parts)): the items of the chain from the
\* root item down to the leaf, from part i on; obj = root[obj_path].
RECURSIVE AddLeafChain(_, _, _, _, _, _)
AddLeafChain(st, its, rootPath, item, parts, i) ==
    IF i > Len(parts) THEN its
    ELSE LET obj == ItemPath(rootPath, JoinSlash(SubSeq(parts, 1, i)))
             held == ChildHolding(its, item, obj)
         IN  IF obj \notin DOMAIN st THEN its
             ELSE IF held # 0 THEN AddLeafChain(st, its, rootPath, held, parts, i + 1)
             ELSE AddLeafChain(st,
                      WithChild(its, item, Len(its[item].children),
                                GroupItem(st[obj].kind, obj, item)),
                      rootPath, NewId(its), parts, i + 1)

\* for leaf in leaves: ...
RECURSIVE AddLeaves(_, _, _, _)
AddLeaves(st, its, rootPath, leaves) ==
    IF leaves = <<>> THEN its
    ELSE AddLeaves(st,
             AddLeafChain(st, its, rootPath, RootId,
                          SplitSlash(StripChar(leaves[1], Slash)), 1),
             rootPath, Tail(leaves))

\* build_tree(root, path, include_attrs, include_arrays, include_groups)
\* with a path pattern that compiles.
BuildTreePath(st, rootPath, path, include_attrs, include_arrays, include_groups) ==
    LET its0 == [x \in {RootId} |-> GroupItem(st[rootPath].kind, rootPath, NoParent)]
        its1 == AddLeaves(st, its0, rootPath,
                          FindLeaves(st, rootPath, path, include_arrays, include_groups))
    IN  IF include_attrs
        THEN ForEachAddAttrs(st, its1, SubtreeList(its1, RootId))
        ELSE its1

\* obj = root[obj_path] raises KeyError for a leaf: root holds nothing at
\* one of the leading parts of the leaf's path.
BuildTreePathRaises(st, rootPath, path, include_arrays, include_groups) ==
    LET leaves == FindLeaves(st, rootPath, path, include_arrays, include_groups)
    IN  \E k \in 1..Len(leaves) :
           LET parts == SplitSlash(StripChar(leaves[k], Slash))
           IN  \E i \in 1..Len(parts) :
                  ~IsObject(st, ItemPath(rootPath, JoinSlash(SubSeq(parts, 1, i))))

\* build_tree with a path pattern on the group at last.path (the root group
\* of the store when empty): the tree built replaces the tree held.
BuildTreePathCall ==
    /\ ~raised /\ calls < MaxCalls
    /\ Pending("build_tree")
    /\ IF PathSliceRegexRaises(last.path_slice)
       THEN /\ last' = [last EXCEPT !.op = "build_tree", !.result = "raised",
                                    !.why = "ValueError"]
            /\ raised' = TRUE
            /\ UNCHANGED items
       ELSE IF BuildTreePathRaises(store, last.path, last.path_slice,
                                   last.include_arrays, last.include_groups)
       THEN /\ last' = [last EXCEPT !.op = "build_tree", !.result = "raised",
                                    !.why = "lookup"]
            /\ raised' = TRUE
            /\ UNCHANGED items
       ELSE /\ last' = [last EXCEPT !.op = "build_tree", !.why = "done", !.result = "true"]
            /\ items' = BuildTreePath(store, last.path, last.path_slice, last.include_attrs,
                                      last.include_arrays, last.include_groups)
            /\ UNCHANGED raised
    /\ calls' = calls + 1
    /\ UNCHANGED store

InitSparse ==
    /\ store \in LeafStores
    /\ items = [x \in {RootId} |-> GroupItem("group", <<>>, NoParent)]
    /\ last \in { [NoCall EXCEPT !.why = "build_tree", !.path_slice = s,
                                  !.include_attrs = iat,
                                  !.include_arrays = ia, !.include_groups = ig] :
                     s \in LeafPathSlices, iat \in BOOLEAN, ia \in BOOLEAN, ig \in BOOLEAN }
    /\ raised = FALSE
    /\ calls = 0

NextSparse == BuildTreePathCall

SpecSparse == InitSparse /\ [][NextSparse]_vars

\* The proper ancestors of a path below the root.
AncestorsBelowRoot(p) == {q \in Ancestors(p) : q # <<>>}

\* C23: the group/array items of a tree built from a pattern are exactly
\* the nodes find_leaves returns and their ancestors below the root; no
\* path has two items, and each item is a child, once, of the item of its
\* parent path.
C23_SparseTreeIsLeavesAndAncestors ==
    (last.op = "build_tree" /\ last.result = "true") =>
        LET leaves == Range(FindLeaves(store, <<>>, last.path_slice,
                                       last.include_arrays, last.include_groups))
            wanted == leaves \cup UNION {AncestorsBelowRoot(p) : p \in leaves}
        IN  /\ {items[x].path : x \in Objects(items) \ {RootId}} = wanted
            /\ \A x, y \in Objects(items) : items[x].path = items[y].path => x = y
            /\ \A x \in Objects(items) \ {RootId} :
                   /\ items[x].parent \in Objects(items)
                   /\ items[items[x].parent].path = ParentPath(items[x].path)
                   /\ Cardinality({j \in 1..Len(items[items[x].parent].children) :
                          items[items[x].parent].children[j] = x}) = 1
            /\ \A x \in Objects(items) : \A j \in 1..Len(items[x].children) :
                   items[items[x].children[j]].parent = x

\* Two leaves below the same group were found: the group has one item with
\* both as children.
C23_Witness_SharedAncestor ==
    /\ last.op = "build_tree" /\ last.result = "true"
    /\ \E x \in Objects(items) \ {RootId} : Len(items[x].children) >= 2

----------------------------------------------------------------------------
(* set_key alone on the trees of the store-root hierarchies, asked for     *)
(* names with blanks and slashes around and inside them.                   *)

\* The names asked for:  a  ab  a/b  ' a'  ''  ab/  a/
RenameInputs ==
    KeyInputs \cup { <<"a", "b", "/">>, <<"a", "/">> }

NextRename ==
    \E id \in DOMAIN items, key \in RenameInputs, storeOk \in BOOLEAN :
        SetKey(id, key, storeOk)

SpecRename == Init /\ [][NextRename]_vars

\* key.strip().strip('/'), the trimming set_key applies to the name asked
\* for.
Trimmed(key) == StripChar(StripChar(key, Space), Slash)

\* The call returned False and changed nothing.
RefusedUnchanged ==
    last'.op = "set_key" /\ last'.result = "false" /\ store' = store /\ items' = items

\* C24 as stated: set_key on a group / array returns False and changes
\* neither the store nor the tree whenever the name asked for contains '/'.
C24_SlashAnywhereIsRefused ==
    [][ (last'.op = "set_key") =>
            \A id \in DOMAIN items, key \in RenameInputs, storeOk \in BOOLEAN :
                (/\ ~isattr(items, id)
                 /\ HasChar(key, Slash)
                 /\ SetKey(id, key, storeOk)) => RefusedUnchanged
      ]_vars

\* C24, amended: set_key on a group / array returns False and changes
\* neither the store nor the tree whenever the name asked for still contains
\* '/' once the blanks and the slashes around it are trimmed.
C24_InnerSlashIsRefused ==
    [][ (last'.op = "set_key") =>
            \A id \in DOMAIN items, key \in RenameInputs, storeOk \in BOOLEAN :
                (/\ ~isattr(items, id)
                 /\ HasChar(Trimmed(key), Slash)
                 /\ SetKey(id, key, storeOk)) => RefusedUnchanged
      ]_vars

\* A set_key was refused for the '/' inside the name.
C24_Witness_RefusedForSlash ==
    last.op = "set_key" /\ last.result = "false" /\ last.why = "slash"

\* C25: set_key on a group / array returns False and changes neither the
\* store nor the tree when the name asked for denotes the current name of
\* the item: the same name, or the same once the blanks and the slashes
\* around it are trimmed.
C25_SameNameIsRefused ==
    [][ (last'.op = "set_key") =>
            \A id \in DOMAIN items, key \in RenameInputs, storeOk \in BOOLEAN :
                (/\ ~isattr(items, id)
                 /\ items[id].parent # NoParent
                 /\ StrKey(Trimmed(key)) = ItemKey(items, id)
                 /\ SetKey(id, key, storeOk)) => RefusedUnchanged
      ]_vars

----------------------------------------------------------------------------
(* set_key alone on a tree with attribute items: the group a holds a list, *)
(* a map with a nested map, and a scalar.                                  *)

s_m == <<"m">>
s_n == <<"n">>
s_p == <<"p">>
s_q == <<"q">>
s_r == <<"r">>
s_x == <<"x">>

\* a.attrs = {l: [10, 11], m: {p: 1, q: {r: 2}, r: 3}, n: 5}
MapStore ==
    [StoreOf({s_a}, {})
        EXCEPT ![s_a].attrs =
            << [k |-> s_l, v |-> ListOf(<<Scalar(10), Scalar(11)>>)],
               [k |-> s_m, v |-> DictOf(<< [k |-> s_p, v |-> Scalar(1)],
                                           [k |-> s_q, v |-> DictOf(<<[k |-> s_r, v |-> Scalar(2)]>>)],
                                           [k |-> s_r, v |-> Scalar(3)] >>)],
               [k |-> s_n, v |-> Scalar(5)] >>]

\* The keys asked for: one that is free everywhere, and keys that entries
\* of the maps hold.
AttrKeyInputs == { s_x, s_p, s_r, s_n }

InitAttrKey ==
    /\ store = MapStore
    /\ items = BuildTree(store, <<>>, TRUE, TRUE, TRUE)
    /\ last = NoCall
    /\ raised = FALSE
    /\ calls = 0

NextAttrKey ==
    \E id \in DOMAIN items, key \in AttrKeyInputs, storeOk \in BOOLEAN :
        SetKey(id, key, storeOk)

SpecAttrKey == InitAttrKey /\ [][NextAttrKey]_vars

\* The container that holds the entry of an attribute item: the value of
\* its parent attribute item, or the attrs of its object.
HolderOf(st, its, id) ==
    IF isattr(its, its[id].parent) THEN AttrValue(st, its, its[id].parent)
    ELSE AttrsOf(st, its[its[id].parent].path)

\* C26: set_key on an attribute item whose parent container is a list
\* returns False; the list, the index of the item and the indexes of its
\* siblings are as before.
C26_ListIndexIsNotRenamed ==
    [][ (last'.op = "set_key") =>
            \A id \in DOMAIN items, key \in AttrKeyInputs, storeOk \in BOOLEAN :
                (/\ isattr(items, id)
                 /\ HolderOf(store, items, id).t = "l"
                 /\ SetKey(id, key, storeOk)) => RefusedUnchanged
      ]_vars

\* A set_key on an index of the list was refused.
C26_Witness_RefusedOnList ==
    last.op = "set_key" /\ last.result = "false" /\ last.why = "list"

\* The attribute items above id, up to the object.
RECURSIVE AttrAncestors(_, _)
AttrAncestors(its, id) ==
    IF isattr(its, its[id].parent)
    THEN {its[id].parent} \cup AttrAncestors(its, its[id].parent)
    ELSE {}

----------------------------------------------------------------------------
(* Claims about failures                                                   *)

\* C28: the removal of the only child the root item has left is refused:
\* no remove_children leaves the root without children, and the call that
\* asks for it returns False and changes nothing.
C28_RootKeepsItsLastChild ==
    [][ (last'.op = "remove_children" /\ Len(items[RootId].children) = 1) =>
            /\ items'[RootId].children # <<>>
            /\ \A count \in 1..MaxCount, failAt \in 0..MaxCount :
                   RemoveChildren(RootId, 0, count, failAt) =>
                       (last'.result = "false" /\ store' = store /\ items' = items)
      ]_vars

\* C29: a mutation whose operation on the backing store fails reports it
\* by returning False; no exception reaches the caller.
C29_StoreFailureReturnsFalse ==
    (/\ last.op \in {"set_key", "move_to", "insert_child_group", "insert_child_attr",
                     "remove_children"}
     /\ last.why = "store") => (last.result = "false" /\ ~raised)

-----------------------------------------------------------------------------
(* zarr_path_utils.py: slice_path applied to well-formed path strings.     *)

\* slice_path(path)
SlicePathCall ==
    /\ ~raised /\ calls < MaxCalls
    /\ Pending("slice_path")
    /\ IF ~SlicePathOk(last.path_slice)
       THEN /\ last' = [last EXCEPT !.op = "slice_path", !.result = "raised",
                                    !.why = "ValueError"]
            /\ raised' = TRUE
       ELSE /\ last' = [last EXCEPT !.op = "slice_path", !.why = "done", !.result = "true",
                                    !.segments = SlicePath(last.path_slice)]
            /\ UNCHANGED raised
    /\ calls' = calls + 1
    /\ UNCHANGED <<store, items>>

\* Segments as they are written in path strings, after the examples of
\* test_index_exp and test_slice_path.
SegmentTexts ==
    { <<"a">>,
      <<"c", "[", "1", "]">>,
      <<"c", "[", ":", "2", ",", "3", "]">>,
      <<"c", "[", "[", "1", ",", "4", "]", "]">>,
      <<" ", "b", " ", "[", " ", "[", "0", ",", " ", "2", "]", " ", ",", " ", "1", ":", ":", "2", " ", "]", " ">>,
      <<"c", "[", ":", "]">>,
      <<"c", "[", "-", "1", "]">>,
      <<"c", "[", "[", "1", ",", "4", "]", ",", "2", ":", ",", "[", "0", "]", "]">> }

\* One segment or two, alone or with a '/' before or after.
ParsePaths ==
    LET inner == SegmentTexts \cup {s \o <<Slash>> \o t : s, t \in SegmentTexts}
    IN  inner \cup {<<Slash>> \o p : p \in inner} \cup {p \o <<Slash>> : p \in inner}

InitParse ==
    /\ store = StoreOf({}, {})
    /\ items = BuildTree(store, <<>>, FALSE, TRUE, TRUE)
    /\ last \in { [NoCall EXCEPT !.why = "slice_path", !.path_slice = s] : s \in ParsePaths }
    /\ raised = FALSE
    /\ calls = 0

NextParse == SlicePathCall

SpecParse == InitParse /\ [][NextParse]_vars

-----------------------------------------------------------------------------
(* Claims about parsing *)

\* How many lists are open at position i of an index expression.
BracketDepth(exp, i) ==
    Cardinality({j \in 1..(i - 1) : exp[j] = LBracket})
        - Cardinality({j \in 1..(i - 1) : exp[j] = RBracket})

\* The positions of the commas outside the bracketed lists.
OuterCommas(exp) == {i \in 1..Len(exp) : exp[i] = Comma /\ BracketDepth(exp, i) = 0}

\* The terms of an index expression: what stands between the outer commas.
Terms(exp) ==
    LET cuts == OuterCommas(exp)
        Cut(k) == IF k = 0 THEN 0
                  ELSE IF k > Cardinality(cuts) THEN Len(exp) + 1
                  ELSE CHOOSE c \in cuts : Cardinality({d \in cuts : d < c}) = k - 1
    IN  [k \in 1..(Cardinality(cuts) + 1) |-> SubSeq(exp, Cut(k - 1) + 1, Cut(k) - 1)]

\* The index is what the term says: a list of ints when bracketed, a slice
\* when it holds ':', with nothing set where nothing is written, an int
\* otherwise.
TermIs(ix, term) ==
    LET t == StripChar(term, Space)
        listed == SplitChar(SubSeq(t, 2, Len(t) - 1), Comma)
        fields == SplitChar(t, Colon)
        Unset(f) == f = NoInt
        FieldIs(f, k) == IF k > Len(fields) \/ fields[k] = <<>> THEN Unset(f)
                         ELSE f = SomeInt(ParseInt(fields[k]).v)
    IN  IF t # <<>> /\ Head(t) = LBracket /\ t[Len(t)] = RBracket
        THEN /\ ix.t = "list"
             /\ Len(ix.ns) = Len(listed)
             /\ \A j \in 1..Len(listed) : ix.ns[j] = ParseInt(listed[j]).v
        ELSE IF HasChar(t, Colon)
        THEN /\ ix.t = "slice"
             /\ FieldIs(ix.start, 1) /\ FieldIs(ix.stop, 2) /\ FieldIs(ix.step, 3)
        ELSE ix.t = "int" /\ ix.n = ParseInt(t).v

\* The segment is what the part says: a bare name with no indices, or the
\* name before the first '[' with one index for each term up to the last ']'.
SegmentIs(seg, part0) ==
    LET part == StripChar(part0, Space)
        open == FindSub(part, <<LBracket>>)
        terms == Terms(SubSeq(part, open + 1, Len(part) - 1))
    IN  IF open = 0
        THEN seg.name = part /\ seg.indices = <<>>
        ELSE /\ seg.name = StripChar(SubSeq(part, 1, open - 1), Space)
             /\ Len(seg.indices) = Len(terms)
             /\ \A j \in 1..Len(terms) : TermIs(seg.indices[j], terms[j])

SegmentsAre(segs, parts) ==
    /\ Len(segs) = Len(parts)
    /\ \A i \in 1..Len(parts) : SegmentIs(segs[i], parts[i])

-----------------------------------------------------------------------------
(* zarr_path_utils.py: slice_path applied to any path string.              *)

\* Segments with an unclosed '[', a ']' too many, and terms that are no ints.
OddSegmentTexts ==
    { <<"a", "[", "1">>,
      <<"a", "]">>,
      <<"c", "[", "x", "]">>,
      <<"c", "[", "1", ":", "x", "]">>,
      <<"c", "[", "[", "1", ",", "x", "]", "]">>,
      <<"c", "[", "1", "]", "]">>,
      <<"x">> }

\* One segment or two of either sort, and a path with nothing between two
\* '/' characters.
AnyPaths ==
    LET texts == SegmentTexts \cup OddSegmentTexts
    IN  texts \cup {s \o <<Slash>> \o t : s, t \in texts} \cup {<<"a", "/", "/", "b">>, <<"a", "/", "/", "c", "[", "1", "]">>}

InitParseAny ==
    /\ store = StoreOf({}, {})
    /\ items = BuildTree(store, <<>>, FALSE, TRUE, TRUE)
    /\ last \in { [NoCall EXCEPT !.why = "slice_path", !.path_slice = s] : s \in AnyPaths }
    /\ raised = FALSE
    /\ calls = 0

SpecParseAny == InitParseAny /\ [][NextParse]_vars

\* The brackets of the part do not pair up: a ']' without a '[' before
\* it, or a '[' left open at the end.
MalformedBrackets(part) ==
    \/ \E i \in 1..Len(part) : part[i] = RBracket /\ BracketDepth(part, i) = 0
    \/ BracketDepth(part, Len(part) + 1) # 0

\* A component of a list or of a slice of the part is not an integer.
NonIntegerComponent(part) ==
    LET open == FindSub(part, <<LBracket>>)
        terms == Terms(SubSeq(part, open + 1, Len(part) - 1))
        ListItems(t) == SplitChar(SubSeq(t, 2, Len(t) - 1), Comma)
        IsList(t) == t # <<>> /\ Head(t) = LBracket /\ t[Len(t)] = RBracket
    IN  /\ ~MalformedBrackets(part) /\ open # 0 /\ part[Len(part)] = RBracket
        /\ \E j \in 1..Len(terms) :
              LET t == StripChar(terms[j], Space)
              IN  IF IsList(t)
                  THEN \E k \in 1..Len(ListItems(t)) : ~ParseInt(ListItems(t)[k]).some
                  ELSE /\ HasChar(t, Colon)
                       /\ \E k \in 1..Len(SplitChar(t, Colon)) :
                             /\ SplitChar(t, Colon)[k] # <<>>
                             /\ ~ParseInt(SplitChar(t, Colon)[k]).some

\* The path has a part that cannot be parsed.
MalformedPath(path) ==
    LET parts == SplitSlash(StripChar(path, Slash))
    IN  \E i \in 1..Len(parts) :
           LET part == StripChar(parts[i], Space)
           IN  part = <<>> \/ MalformedBrackets(part) \/ NonIntegerComponent(part)

\* C31: parsing a path pattern in which a segment has brackets that do not
\* pair up, a list or slice component that is not an integer, or nothing in
\* it (as in 'a//b') fails with an error and yields no segments.
C31_MalformedPatternFails ==
    (last.op = "slice_path" /\ MalformedPath(last.path_slice)) =>
        (last.result = "raised" /\ last.segments = <<>>)

-----------------------------------------------------------------------------
(* Claims about the shape of the item graph *)

\* Following parent_item from x ends at the root within n steps.
RECURSIVE ReachesRoot(_, _, _)
ReachesRoot(its, x, n) ==
    IF x = RootId THEN its[x].parent = NoParent
    ELSE IF n = 0 \/ its[x].parent \notin DOMAIN its THEN FALSE
    ELSE ReachesRoot(its, its[x].parent, n - 1)

\* The places where x stands in a child list.
PlacesOf(its, x) ==
    {pl \in (DOMAIN its) \X (1..Cardinality(DOMAIN its)) :
        pl[2] <= Len(its[pl[1]].children) /\ its[pl[1]].children[pl[2]] = x}

\* C32: after any sequence of move_to, set_key, insert and remove calls the
\* items form a tree: every item but the root stands exactly once in exactly
\* one child list, that of its parent_item, and parent_item leads from every
\* item to the root; a move_to into the moved item's own subtree makes no
\* cycle and cuts no item off the root.
C32_ItemsFormATree ==
    \A x \in DOMAIN items :
        /\ ReachesRoot(items, x, Cardinality(DOMAIN items))
        /\ x # RootId =>
              /\ Cardinality(PlacesOf(items, x)) = 1
              /\ \A pl \in PlacesOf(items, x) : pl[1] = items[x].parent

-----------------------------------------------------------------------------
(* Trees built sparsely from a path pattern, then edited.                  *)

\* Hierarchies of which the patterns below show only a part.
HiddenStores ==
    { StoreOf({s_a, s_ab, ChildPath(s_ab, s_a)}, {}),
      StoreOf({s_a, ChildPath(s_a, <<"b">>), <<"b">>}, {}),
      StoreOf({s_a, ChildPath(s_a, <<"b">>), s_ab}, {ChildPath(s_a, s_ab)}) }

HiddenPatterns == { <<"a", "b", "/", "a">>, <<"a", "/", "b">>, <<"a", "/", "*">> }

InitHidden ==
    /\ store \in HiddenStores
    /\ \E path \in HiddenPatterns : items = BuildTreePath(store, <<>>, path, FALSE, TRUE, TRUE)
    /\ Cardinality(DOMAIN items) > 1
    /\ last = NoCall
    /\ raised = FALSE
    /\ calls = 0

NextHidden ==
    \/ \E id \in DOMAIN items, key \in KeyInputs, storeOk \in BOOLEAN :
          SetKey(id, key, storeOk)
    \/ \E id \in DOMAIN items, dst \in DOMAIN items, pos \in Positions, storeOk \in BOOLEAN :
          MoveTo(id, dst, pos, storeOk)
    \/ \E id \in DOMAIN items, pos \in Positions, nokey \in BOOLEAN, key \in InsertKeys,
          storeOk \in BOOLEAN :
          InsertChildGroup(id, pos, nokey, key, storeOk)

SpecHidden == InitHidden /\ [][NextHidden]_vars

\* The store path the call that has just returned gave to its object.
TargetPath ==
    IF last'.op = "set_key"
    THEN ItemPath(ParentPath(items[last'.item].path), last'.newkey)
    ELSE IF last'.op = "move_to"
    THEN ItemPath(items[last'.dst].path, last'.key)
    ELSE ItemPath(items[last'.item].path, last'.newkey)

\* C33: in a tree built sparsely from a path pattern, a set_key, move_to or
\* insert_child_group that returns True never gives its object a store path
\* at which the store already held an object, shown in the tree or not
\* (a set_key whose name comes out empty is left aside: it names no child).
C33_NoHiddenObjectIsOverwritten ==
    [][ (/\ last'.op \in {"set_key", "move_to", "insert_child_group"}
         /\ last'.result = "true"
         /\ last'.op = "set_key" => last'.newkey # <<>>)
            => ~IsObject(store, TargetPath) ]_vars

-----------------------------------------------------------------------------
(* insert_child_attr and remove_children on the attribute items of a tree  *)
(* built with its attributes.                                              *)

InitList ==
    /\ store \in {AttrStore, MapStore}
    /\ items = BuildTree(store, <<>>, TRUE, TRUE, TRUE)
    /\ last = NoCall
    /\ raised = FALSE
    /\ calls = 0

NextList ==
    \/ \E id \in DOMAIN items, pos \in Positions, nokey \in BOOLEAN, key \in AttrKeys,
          value \in AttrValues, storeOk \in BOOLEAN :
          isattr(items, id) /\ InsertChildAttr(id, pos, nokey, key, value, storeOk)
    \/ \E id \in DOMAIN items, pos \in Positions, count \in 1..MaxCount, failAt \in 0..MaxCount :
          isattr(items, id) /\ RemoveChildren(id, pos, count, failAt)

SpecList == InitList /\ [][NextList]_vars

\* The attribute items whose value in the store is a list.
ListItems(st, its) ==
    {x \in DOMAIN its : isattr(its, x) /\ AttrValue(st, its, x).t = "l"}

\* The item has one child for each element of its list, the child at row i
\* with the index i.
MirrorsList(st, its, x) ==
    /\ Len(its[x].children) = Len(AttrValue(st, its, x).e)
    /\ \A i \in 1..Len(its[x].children) : its[its[x].children[i]].key = IntKey(i - 1)

\* C34: for every attribute item whose value is a list and whose children
\* were built from the store, after any sequence of insert_child_attr and
\* remove_children calls on it the item has as many children as the list of
\* the store has elements, and the child at row i carries the index i.
C34_ListItemsMirrorTheirList ==
    \A x \in ListItems(store, items) : MirrorsList(store, items, x)

-----------------------------------------------------------------------------
(* insert_child_group, also asked for a name that is a path.               *)

InsertNames == InsertKeys \cup { <<"a", "b", "/", "a">> }

NextInsert ==
    \E id \in DOMAIN items, pos \in Positions, nokey \in BOOLEAN, key \in InsertNames,
       storeOk \in BOOLEAN :
       InsertChildGroup(id, pos, nokey, key, storeOk)

SpecInsert == Init /\ [][NextInsert]_vars

\* C35: insert_child_group on a group item that returns True has created in
\* the store a group that was not there, under a key that none of the
\* item's group / array children holds, and the tree has one item more, for
\* that group, at the position asked, the children the item had in the order
\* they were in and every other item as it was; when the call does not
\* return True (the store did not create the group, or the call was
\* refused) the items and the store are as before.
C35_InsertCreatesThenInserts ==
    [][ last'.op = "insert_child_group" =>
          IF last'.result = "true"
          THEN LET id == last'.item
                   p == last'.pos
                   new == last'.dst
                   path == ItemPath(items[id].path, last'.newkey)
                   kids == items[id].children
               IN  /\ isgroup(items, id)
                   /\ StrKey(last'.newkey) \notin
                         {ItemKey(items, c) : c \in {x \in Range(kids) : ~isattr(items, x)}}
                   /\ ~IsObject(store, path)
                   /\ IsObject(store', path) /\ store'[path].kind = "group"
                   /\ \A q \in DOMAIN store : q \in DOMAIN store' /\ store'[q] = store[q]
                   /\ new \notin DOMAIN items
                   /\ DOMAIN items' = DOMAIN items \cup {new}
                   /\ items'[new] = GroupItem("group", path, id)
                   /\ Len(items'[id].children) = Len(kids) + 1
                   /\ items'[id].children[p + 1] = new
                   /\ \A i \in 1..Len(kids) :
                         items'[id].children[IF i <= p THEN i ELSE i + 1] = kids[i]
                   /\ \A x \in DOMAIN items \ {id} : items'[x] = items[x]
                   /\ [items'[id] EXCEPT !.children = kids] = items[id]
          ELSE items' = items /\ store' = store
      ]_vars

\* C35 witness: a group was inserted before the last child of an item with
\* several children, under a key made unique.
C35_Witness_InsertedBeforeLast ==
    /\ last.op = "insert_child_group" /\ last.result = "true"
    /\ last.newkey # last.key
    /\ last.pos + 1 < Len(items[last.item].children)
    /\ Len(items[last.item].children) > 2

-----------------------------------------------------------------------------
(* Writes to values nested in an attribute: set_attr, insert_child_attr,   *)
(* remove_children and set_key on the attribute items of one group.        *)

\* set_attr(value); storeOk: the write of obj.attrs does not fail.
SetAttr(id, value, storeOk) ==
    LET c == AttrChain(items, id, <<>>)
        objPath == items[c.obj].path
        attrs == AttrsOf(store, objPath)
        n == Len(c.chain)
        child_attr == WalkChain(attrs, SubSeq(c.chain, 1, n - 1))
        call == [NoCall EXCEPT !.op = "set_attr", !.item = id]
    IN  /\ ~raised /\ calls < MaxCalls
        /\ id \in DOMAIN items
        /\ IF ~isattr(items, id) THEN Rejected("set_attr", "notattr")
           ELSE IF n = 1
           THEN IF ~storeOk THEN Raised("set_attr", "store", store, items)
                ELSE Returned(call, WithAttrs(store, objPath,
                                              DictSet(attrs.e, c.chain[1].s, value)), items)
           \* child_attr[key] = value: a dict takes any key, a list only an
           \* index it holds
           ELSE IF child_attr.t \in {"x", "s"}
                   \/ (child_attr.t = "l" /\ Subscript(child_attr, c.chain[n]).t = "x")
           THEN Raised("set_attr", "lookup", store, items)
           ELSE IF ~storeOk THEN Raised("set_attr", "store", store, items)
           ELSE Returned(call, WithAttrs(store, objPath, ReplaceAt(attrs, c.chain, value).e),
                         items)

s_k == <<"k">>

\* a.attrs = {m: {p: 1, q: {r: [10, 11]}}, k: {p: 5}}
NestedStore ==
    [StoreOf({s_a}, {})
        EXCEPT ![s_a].attrs =
            << [k |-> s_m,
                v |-> DictOf(<< [k |-> s_p, v |-> Scalar(1)],
                                [k |-> s_q,
                                 v |-> DictOf(<<[k |-> s_r,
                                                 v |-> ListOf(<<Scalar(10), Scalar(11)>>)]>>)] >>)],
               [k |-> s_k, v |-> DictOf(<<[k |-> s_p, v |-> Scalar(5)]>>)] >>]

InitNested ==
    /\ store = NestedStore
    /\ items = BuildTree(store, <<>>, TRUE, TRUE, TRUE)
    /\ last = NoCall
    /\ raised = FALSE
    /\ calls = 0

NextNested ==
    \/ \E id \in DOMAIN items, value \in AttrValues, storeOk \in BOOLEAN :
          isattr(items, id) /\ SetAttr(id, value, storeOk)
    \/ \E id \in DOMAIN items, key \in AttrKeyInputs, storeOk \in BOOLEAN :
          isattr(items, id) /\ SetKey(id, key, storeOk)
    \/ \E id \in DOMAIN items, pos \in Positions, nokey \in BOOLEAN, key \in AttrKeyInputs,
          value \in AttrValues, storeOk \in BOOLEAN :
          isattr(items, id) /\ InsertChildAttr(id, pos, nokey, key, value, storeOk)
    \/ \E id \in DOMAIN items, pos \in Positions, count \in 1..MaxCount, failAt \in 0..MaxCount :
          isattr(items, id) /\ RemoveChildren(id, pos, count, failAt)

SpecNested == InitNested /\ [][NextNested]_vars

\* The key of the i-th entry of a container: a dict key or a list index.
KeyAt(value, i) == IF value.t = "m" THEN StrKey(value.e[i].k) ELSE IntKey(i - 1)

\* The entries of a container at other keys than those of addr, in order.
Kept(value, addr) ==
    LET idx == {i \in 1..Len(value.e) : KeyAt(value, i) \notin addr}
        Nth(j) == CHOOSE i \in idx : Cardinality({k \in idx : k < i}) = j - 1
    IN  [j \in 1..Cardinality(idx) |-> value.e[Nth(j)]]

\* new differs from old at most inside the container found along chain:
\* at every level down to it the keys are the same and every entry beside
\* the chain has its value.
RECURSIVE OnlyInside(_, _, _)
OnlyInside(old, new, chain) ==
    IF chain = <<>> THEN TRUE
    ELSE /\ old.t = new.t /\ Len(old.e) = Len(new.e)
         /\ \A i \in 1..Len(old.e) :
               /\ KeyAt(old, i) = KeyAt(new, i)
               /\ KeyAt(old, i) # chain[1] => old.e[i] = new.e[i]
         /\ OnlyInside(Subscript(old, chain[1]), Subscript(new, chain[1]), Tail(chain))

\* What the call that has just returned wrote to: the chain of keys down to
\* the container written in, the keys addressed in it before the call and
\* the keys addressed in it after the call.
Written ==
    LET x == last'.item
        cx == AttrChain(items, x, <<>>).chain
        most == SubSeq(cx, 1, Len(cx) - 1)
        value == AttrValue(store, items, x)
    IN  IF last'.op = "set_attr"
        THEN [chain |-> most, before |-> {cx[Len(cx)]}, after |-> {cx[Len(cx)]}]
        ELSE IF last'.op = "set_key"
        THEN [chain |-> most, before |-> {cx[Len(cx)]}, after |-> {StrKey(last'.newkey)}]
        ELSE IF last'.op = "insert_child_attr"
        THEN [chain |-> cx, before |-> {},
              after |-> {IF value.t = "m" THEN StrKey(last'.newkey) ELSE IntKey(last'.pos)}]
        ELSE [chain |-> cx,
              before |-> {ItemKey(items, items[x].children[i]) :
                             i \in (last'.pos + 1)..(last'.pos + last'.count)},
              after |-> {}]

\* C36: a set_attr, insert_child_attr, remove_children or set_key that writes
\* to a position nested in a dict or list attribute leaves every other
\* object as it was, the object with the same top-level keys, every other
\* top-level attribute with its value, and inside the attribute written to
\* every position but the one addressed with its value.
C36_NestedWriteChangesOnlyItsPosition ==
    [][ (/\ last'.op \in {"set_attr", "insert_child_attr", "remove_children", "set_key"}
         /\ last'.result = "true"
         /\ isattr(items, last'.item)
         /\ Written.chain # <<>>) =>
            LET path == items[AttrChain(items, last'.item, <<>>).obj].path
                old == AttrsOf(store, path)
                new == AttrsOf(store', path)
            IN  /\ DOMAIN store' = DOMAIN store
                /\ \A q \in DOMAIN store \ {path} : store'[q] = store[q]
                /\ store'[path].kind = store[path].kind
                /\ OnlyInside(old, new, Written.chain)
                /\ Kept(WalkChain(old, Written.chain), Written.before)
                      = Kept(WalkChain(new, Written.chain), Written.after)
      ]_vars

\* C36 witness: a value was set four keys deep, in a list that a dict of a
\* dict attribute holds.
C36_Witness_SetInNestedList ==
    /\ last.op = "set_attr" /\ last.result = "true"
    /\ Len(AttrChain(items, last.item, <<>>).chain) > 3
    /\ AttrValue(store, items, last.item) \in AttrValues

-----------------------------------------------------------------------------
(* Trees whose root item is a group below the root group of the store.     *)

s_g == <<"g">>

\* g { a { b }, ab } and g { a, g { ab } }.
SubStores ==
    { StoreOf({s_g, ChildPath(s_g, s_a), ChildPath(ChildPath(s_g, s_a), <<"b">>),
               ChildPath(s_g, s_abb)}, {}),
      StoreOf({s_g, ChildPath(s_g, s_a), ChildPath(s_g, s_g),
               ChildPath(ChildPath(s_g, s_g), s_ab)}, {}) }

SubPatterns == { <<"g", "/", "a">>, <<"g", "/", "*">>, <<"a">> }

\* The names asked of set_key.
SubKeys == { s_ab, <<"b">> }

\* The tree is build_tree(store['g']); a sparse build_tree(store['g'], path)
\* may follow first.
InitSub ==
    /\ store \in SubStores
    /\ items = BuildTree(store, s_g, FALSE, TRUE, TRUE)
    /\ last \in {NoCall} \cup
                { [NoCall EXCEPT !.why = "build_tree", !.path = s_g, !.path_slice = s,
                                 !.include_arrays = TRUE, !.include_groups = TRUE] :
                     s \in SubPatterns }
    /\ raised = FALSE
    /\ calls = 0

NextSub ==
    \/ \E id \in DOMAIN items, key \in SubKeys, storeOk \in BOOLEAN :
          SetKey(id, key, storeOk)
    \/ \E id \in DOMAIN items, dst \in DOMAIN items, pos \in Positions, storeOk \in BOOLEAN :
          MoveTo(id, dst, pos, storeOk)
    \/ BuildTreePathCall

SpecSub == InitSub /\ [][NextSub]_vars

\* C37: in a tree whose root item is a group other than the root group of
\* the store, set_key, move_to and the sparse build_tree find every object
\* they fetch again (no KeyError), and after a set_key or move_to that
\* returned True every group / array item of the subtree renamed or moved
\* holds an object of the store, at the path of its parent item joined with
\* its own key.
C37_SubrootTreeFollowsTheStore ==
    [][ last'.op \in {"set_key", "move_to", "build_tree"} =>
          /\ ~(last'.result = "raised" /\ last'.why = "lookup")
          /\ (last'.result = "true" /\ last'.op # "build_tree") =>
                \A x \in SubtreeIds(items', last'.item) :
                   /\ IsObject(store', items'[x].path)
                   /\ items'[x].path =
                         ChildPath(items'[items'[x].parent].path, ItemKey(items', x).s)
      ]_vars

-----------------------------------------------------------------------------
(* Renaming and moving groups that carry attribute items.                  *)

\* ab { a } and b, with ab.attrs = {n: 5, l: [10]} and ab/a.attrs = {n: 5}.
ObjAttrStore ==
    [StoreOf({s_ab, ChildPath(s_ab, s_a), <<"b">>}, {})
        EXCEPT ![s_ab].attrs = << [k |-> s_n, v |-> Scalar(5)],
                                  [k |-> s_l, v |-> ListOf(<<Scalar(10)>>)] >>,
               ![ChildPath(s_ab, s_a)].attrs = << [k |-> s_n, v |-> Scalar(5)] >>]

InitObjAttr ==
    /\ store = ObjAttrStore
    /\ items = BuildTree(store, <<>>, TRUE, TRUE, TRUE)
    /\ last = NoCall
    /\ raised = FALSE
    /\ calls = 0

NextObjAttr ==
    \/ \E id \in DOMAIN items, key \in KeyInputs, storeOk \in BOOLEAN :
          ~isattr(items, id) /\ SetKey(id, key, storeOk)
    \/ \E id \in DOMAIN items, dst \in DOMAIN items, pos \in Positions, storeOk \in BOOLEAN :
          ~isattr(items, id) /\ MoveTo(id, dst, pos, storeOk)

SpecObjAttr == InitObjAttr /\ [][NextObjAttr]_vars

\* The row of item x in its parent's child list.
RowOf(its, x) == CHOOSE i \in 1..Len(its[its[x].parent].children) :
                     its[its[x].parent].children[i] = x

\* C38: in a tree built with attribute items, a set_key or move_to of a
\* group / array that the store has carried out returns True and leaves
\* every attribute item of the subtree renamed or moved with its key, its
\* parent and its row, resolving to the attribute value it resolved to before.
C38_AttrItemsSurviveRenameAndMove ==
    [][ (last'.op \in {"set_key", "move_to"} /\ store' # store) =>
          /\ last'.result = "true"
          /\ \A x \in SubtreeIds(items, last'.item) :
                isattr(items, x) =>
                   /\ x \in DOMAIN items' /\ isattr(items', x)
                   /\ items'[x].key = items[x].key
                   /\ items'[x].parent = items[x].parent
                   /\ RowOf(items', x) = RowOf(items, x)
                   /\ AttrValue(store', items', x) = AttrValue(store, items, x)
      ]_vars
====
